---------------------------- MODULE Spec2Model ----------------------------
(***************************************************************************)
(* Voice-to-action pipeline: the rule-based ActionDecider                  *)
(* (src/nlp/action_decider.py), the EntityExtractor                        *)
(* (src/nlp/entity_extractor.py), the IntentClassifier life cycle and its  *)
(* preprocess_text (src/nlp/intent_classifier.py), and the request         *)
(* pipeline of the service (src/main.py).                                  *)
(*                                                                         *)
(* Python's Optional values are encoded as sequences: None is <<>> and a   *)
(* present value v is <<v>>, so that a null compares with values of every  *)
(* type.  Python dicts are records; Python lists are sequences.  A str     *)
(* whose characters the program inspects (a query text, an entity value)   *)
(* is the sequence of its Unicode code points, written Codes("kg"); the    *)
(* fixed labels, keys and messages are TLA+ strings.  An int is recorded   *)
(* by its decimal numeral, so that it has any size; a float is recorded by *)
(* the numerals of the whole part and of the fraction of its exact value.  *)
(***************************************************************************)
EXTENDS Integers, Sequences, FiniteSets, TLC

VARIABLES
    \* ---- one ActionDecider and its caller ----
    intent,        \* the intent label of the last decide_action call
    entities,      \* the caller's entity dict (as it is after the last call)
    supplied,      \* the entity dict as it was handed to the last call
    confidence,    \* the confidence handed to the last call
    directive,     \* what the last decide_action call returned
    \* ---- one IntentClassifier, the model file and the threads using them ----
    vectorizer,    \* self.vectorizer: the data its vocabulary was fitted on
    model,         \* self.model: the data its coefficients were fitted on
    is_trained,    \* self.is_trained
    file,          \* the content of the model file (model_path)
    wpc,           \* the writer thread: the line of train/load/save it is at
    wlocal,        \* the writer thread's locals: dataset_path, data, f
    wresult,       \* how the writer's last call ended
    wcall,         \* history: the writer's last call and the attributes it found
    rpc,           \* each reader thread: the line of predict it is at
    rlocal,        \* each reader's locals: text_vec, intent, confidence
    rresult,       \* how each reader's last predict ended
    completed,     \* history: some train or load call has returned normally
    opc,           \* the offline training process: where its save is
    \* ---- one EntityExtractor call, one preprocess_text call ----
    query_text,    \* the text handed to the call (the query of the request)
    ner,           \* what the recogniser reports for the text: GPE/LOC entity texts
    extracted,     \* what the last extract call returned
    normalized,    \* what the last preprocess_text call returned
    \* ---- the service (main.py) ----
    ppc,           \* the line of main.py the service is at
    stages,        \* history: the stages run for the current request, in order
    response       \* the response to the last request

dvars == <<intent, entities, supplied, confidence, directive>>
cvars == <<vectorizer, model, is_trained, file, wpc, wlocal, wresult, wcall,
           rpc, rlocal, rresult, completed, opc>>
xvars == <<query_text, ner, extracted, normalized>>
pvars == <<ppc, stages, response>>
vars == <<dvars, cvars, xvars, pvars>>

None == <<>>
Some(v) == <<v>>

\* A local variable of the code, which Python computes once, is bound once:
\* CHOOSE result \in { E(v) : v \in {value} } : TRUE is E(value).

\* The code points of the characters a literal is written with: the
\* printable ASCII characters but the grave accent, tab, newline, form feed
\* and carriage return.
Ascii ==
    "\t" :> 9 @@ "\n" :> 10 @@ "\f" :> 12 @@ "\r" :> 13 @@ " " :> 32
    @@ "!" :> 33 @@ "\"" :> 34 @@ "#" :> 35 @@ "$" :> 36 @@ "%" :> 37
    @@ "&" :> 38 @@ "'" :> 39 @@ "(" :> 40 @@ ")" :> 41 @@ "*" :> 42
    @@ "+" :> 43 @@ "," :> 44 @@ "-" :> 45 @@ "." :> 46 @@ "/" :> 47
    @@ "0" :> 48 @@ "1" :> 49 @@ "2" :> 50 @@ "3" :> 51 @@ "4" :> 52
    @@ "5" :> 53 @@ "6" :> 54 @@ "7" :> 55 @@ "8" :> 56 @@ "9" :> 57
    @@ ":" :> 58 @@ ";" :> 59 @@ "<" :> 60 @@ "=" :> 61 @@ ">" :> 62
    @@ "?" :> 63 @@ "@" :> 64 @@ "A" :> 65 @@ "B" :> 66 @@ "C" :> 67
    @@ "D" :> 68 @@ "E" :> 69 @@ "F" :> 70 @@ "G" :> 71 @@ "H" :> 72
    @@ "I" :> 73 @@ "J" :> 74 @@ "K" :> 75 @@ "L" :> 76 @@ "M" :> 77
    @@ "N" :> 78 @@ "O" :> 79 @@ "P" :> 80 @@ "Q" :> 81 @@ "R" :> 82
    @@ "S" :> 83 @@ "T" :> 84 @@ "U" :> 85 @@ "V" :> 86 @@ "W" :> 87
    @@ "X" :> 88 @@ "Y" :> 89 @@ "Z" :> 90 @@ "[" :> 91 @@ "\\" :> 92
    @@ "]" :> 93 @@ "^" :> 94 @@ "_" :> 95 @@ "a" :> 97
    @@ "b" :> 98 @@ "c" :> 99 @@ "d" :> 100 @@ "e" :> 101 @@ "f" :> 102
    @@ "g" :> 103 @@ "h" :> 104 @@ "i" :> 105 @@ "j" :> 106 @@ "k" :> 107
    @@ "l" :> 108 @@ "m" :> 109 @@ "n" :> 110 @@ "o" :> 111 @@ "p" :> 112
    @@ "q" :> 113 @@ "r" :> 114 @@ "s" :> 115 @@ "t" :> 116 @@ "u" :> 117
    @@ "v" :> 118 @@ "w" :> 119 @@ "x" :> 120 @@ "y" :> 121 @@ "z" :> 122
    @@ "{" :> 123 @@ "|" :> 124 @@ "}" :> 125 @@ "~" :> 126

\* The text of a literal: the code points of its characters.
Codes(s) == [i \in 1..Len(s) |-> Ascii[SubSeq(s, i, i)]]

(***************************************************************************)
(* ActionDecider                                                           *)
(***************************************************************************)

\* action_decider.py:16-57
INTENT_REQUIREMENTS ==
    [ CHECK_RATE |->
        [ required |-> <<"pickup_location", "drop_location", "weight_kg">>,
          optional |-> <<"packages">> ],
      CHECK_SERVICEABILITY |->
        [ required |-> <<"drop_location">>,
          optional |-> <<"pickup_location">> ],
      BOOK_PICKUP |->
        [ required |-> <<"pickup_location", "drop_location", "packages">>,
          optional |-> <<"pickup_time", "weight_kg", "phone_number", "payment_mode">> ],
      TRACK_ORDER |->
        [ required |-> <<>>, optional |-> <<"phone_number">> ],
      CANCEL_ORDER |->
        [ required |-> <<>>, optional |-> <<>> ],
      RESCHEDULE_PICKUP |->
        [ required |-> <<"pickup_time">>,
          optional |-> <<"pickup_location">> ],
      RAISE_COMPLAINT |->
        [ required |-> <<>>, optional |-> <<"phone_number">> ],
      CONNECT_TO_AGENT |->
        [ required |-> <<>>, optional |-> <<>> ],
      PAYMENT_QUERY |->
        [ required |-> <<>>, optional |-> <<>> ],
      DOCUMENT_UPLOAD_QUERY |->
        [ required |-> <<>>, optional |-> <<>> ] ]

\* The labels a caller may pass: the ten of the table and two that are not in it.
Intents == DOMAIN INTENT_REQUIREMENTS \cup {"FOO", "check_rate"}

\* The confidence values a caller may pass (predict rounds to two decimals;
\* kept as hundredths).
Confidences == {5, 100}

\* The entity dicts a caller may pass: the eight keys of EntityExtractor.extract,
\* every field null or a value extract can give it.  A zero is a value, not a
\* null ("0 boxes", "0 kg"); no rule of extract returns an empty string.
EntitySets ==
    [ pickup_location : {None, Some(Codes("Andheri")), Some(Codes("Mumbai"))},
      drop_location   : {None, Some(Codes("Powai"))},
      weight_kg       : {None, Some([whole |-> "0", fraction |-> ""]),
                         Some([whole |-> "10", fraction |-> ""])},
      packages        : {None, Some("0"), Some("2")},
      pickup_time     : {None, Some(Codes("morning")), Some(Codes("6 baje"))},
      fragile         : {FALSE, TRUE},
      payment_mode    : {None, Some(Codes("COD"))},
      phone_number    : {None, Some(Codes("9876543210"))} ]

\* str.join
RECURSIVE Join(_, _)
Join(sep, items) ==
    IF Len(items) = 0 THEN ""
    ELSE IF Len(items) = 1 THEN items[1]
    ELSE CHOOSE result \in
             { Join(sep, SubSeq(items, 1, mid)) \o sep
                   \o Join(sep, SubSeq(items, mid + 1, Len(items)))
               : mid \in {Len(items) \div 2} } : TRUE

\* Python truthiness of an Optional[str]: None and "" are falsy.
Truthy(v) == v # None /\ v # Some(<<>>)

\* A bug find_missing_fields could have: testing truthiness instead of "is None".
find_missing_fields_falsy(i, e) ==
    IF i \notin DOMAIN INTENT_REQUIREMENTS THEN <<>>
    ELSE SelectSeq(INTENT_REQUIREMENTS[i].required,
                   LAMBDA f : \/ e[f] = None
                              \/ f = "weight_kg" /\ e[f] = Some([whole |-> "0", fraction |-> ""])
                              \/ f = "packages" /\ e[f] = Some("0")
                              \/ f \notin {"weight_kg", "packages"} /\ e[f] = Some(<<>>))

\* A bug find_missing_fields could have: the loop stops one field early.
find_missing_fields_short(i, e) ==
    IF i \notin DOMAIN INTENT_REQUIREMENTS THEN <<>>
    ELSE LET req == INTENT_REQUIREMENTS[i].required
         IN  SelectSeq(SubSeq(req, 1, Len(req) - 1), LAMBDA f : e[f] = None)

\* action_decider.py:62-84
find_missing_fields(i, e) ==
    IF i \notin DOMAIN INTENT_REQUIREMENTS THEN <<>>
    ELSE SelectSeq(INTENT_REQUIREMENTS[i].required, LAMBDA f : e[f] = None)

\* action_decider.py:238-245 and the .get(f, f) of line 247
field_messages(f) ==
    CASE f = "pickup_location" -> "pickup location"
      [] f = "drop_location"   -> "delivery location"
      [] f = "weight_kg"       -> "package weight (in kg)"
      [] f = "packages"        -> "number of packages"
      [] f = "pickup_time"     -> "preferred pickup time"
      [] f = "phone_number"    -> "contact number"
      [] OTHER                 -> f

\* A bug the message generator could have: every name joined by commas, no "and".
generate_missing_fields_message_commas(missing_fields) ==
    LET readable_fields ==
            [k \in 1..Len(missing_fields) |-> field_messages(missing_fields[k])]
    IN  "Please provide " \o Join(", ", readable_fields) \o "."

\* action_decider.py:234-252 (called with a non-empty list only)
generate_missing_fields_message(missing_fields) ==
    LET readable_fields ==
            [k \in 1..Len(missing_fields) |-> field_messages(missing_fields[k])]
        n == Len(readable_fields)
    IN  IF n = 1
        THEN "Please provide " \o readable_fields[1] \o "."
        ELSE "Please provide " \o Join(", ", SubSeq(readable_fields, 1, n - 1))
                 \o " and " \o readable_fields[n] \o "."

\* action_decider.py:106-110, 125-129, 142-146
ask_missing_fields(missing_fields) ==
    [ next_action    |-> "ASK_MISSING_FIELDS",
      missing_fields |-> missing_fields,
      message        |-> generate_missing_fields_message(missing_fields) ]

\* A bug the recommended-field check could have: phone_number tested first.
recommended_fields_swapped(e) ==
    (IF ~Truthy(e.phone_number) THEN <<"phone_number">> ELSE <<>>)
    \o (IF ~Truthy(e.pickup_time) THEN <<"pickup_time">> ELSE <<>>)

\* action_decider.py:149-153
recommended_fields(e) ==
    (IF ~Truthy(e.pickup_time) THEN <<"pickup_time">> ELSE <<>>)
    \o (IF ~Truthy(e.phone_number) THEN <<"phone_number">> ELSE <<>>)

\* action_decider.py:148-168
book_pickup(e) ==
    LET recommended == recommended_fields(e)
    IN  IF recommended # <<>>
        THEN [ next_action     |-> "ASK_OPTIONAL_FIELDS",
               optional_fields |-> recommended,
               message         |-> "I can book your pickup. Would you like to specify "
                                       \o Join(", ", recommended) \o "?",
               can_proceed     |-> TRUE ]
        ELSE [ next_action |-> "CREATE_BOOKING",
               message     |-> "Creating your pickup booking...",
               api_call    |-> "booking_api",
               parameters  |-> e ]

\* A bug the TRACK_ORDER branch could have: the tag depends on the phone number.
track_order_by_phone(e) ==
    [ next_action   |-> IF e.phone_number = None THEN "ASK_TRACKING_INFO"
                        ELSE "LOOKUP_BY_PHONE",
      message       |-> "Please provide your AWB number or order ID to track",
      required_info |-> "awb_number" ]

\* action_decider.py:170-175
track_order(e) ==
    [ next_action   |-> "ASK_TRACKING_INFO",
      message       |-> "Please provide your AWB number or order ID to track",
      required_info |-> "awb_number" ]

\* A bug the RAISE_COMPLAINT branch could have: the contact is never attached.
raise_complaint_no_contact(e) ==
    [ next_action |-> "CREATE_TICKET",
      message     |-> "I will create a complaint ticket. Please describe your issue.",
      ticket_type |-> "complaint",
      contact     |-> None ]

\* action_decider.py:198-204
raise_complaint(e) ==
    [ next_action |-> "CREATE_TICKET",
      message     |-> "I will create a complaint ticket. Please describe your issue.",
      ticket_type |-> "complaint",
      contact     |-> e.phone_number ]

\* A bug the else branch could have: the label is replaced, not echoed.
unknown_intent_no_echo(i) ==
    [ next_action |-> "UNKNOWN",
      message     |-> "I am not sure how to help with that. Please contact customer support.",
      intent      |-> "UNKNOWN" ]

\* action_decider.py:227-232
unknown_intent(i) ==
    [ next_action |-> "UNKNOWN",
      message     |-> "I am not sure how to help with that. Please contact customer support.",
      intent      |-> i ]

\* A bug decide_action could have: a low confidence changes the decision.
confidence_gate_low(c, d) ==
    IF c < 50
    THEN [ next_action |-> "CONFIRM_INTENT", message |-> "Did you mean that?" ]
    ELSE d

\* action_decider.py:86-232: the confidence parameter is read nowhere in the
\* body, so the decision passes through unchanged.
confidence_gate(c, d) == d

\* action_decider.py:86-232
decide_action(i, e, c) ==
    LET missing_fields == find_missing_fields(i, e)
    IN  confidence_gate(c,
        CASE i = "CHECK_RATE" ->
               IF missing_fields # <<>> THEN ask_missing_fields(missing_fields)
               ELSE [ next_action |-> "CALCULATE_RATE",
                      message     |-> "Fetching rate information...",
                      api_call    |-> "pricing_api",
                      parameters  |-> [ from   |-> e.pickup_location,
                                        to     |-> e.drop_location,
                                        weight |-> e.weight_kg ] ]
          [] i = "CHECK_SERVICEABILITY" ->
               IF missing_fields # <<>> THEN ask_missing_fields(missing_fields)
               ELSE [ next_action |-> "CHECK_SERVICE_AREA",
                      message     |-> "Checking serviceability...",
                      api_call    |-> "serviceability_api",
                      parameters  |-> [ location |-> e.drop_location ] ]
          [] i = "BOOK_PICKUP" ->
               IF missing_fields # <<>> THEN ask_missing_fields(missing_fields)
               ELSE book_pickup(e)
          [] i = "TRACK_ORDER" -> track_order(e)
          [] i = "CANCEL_ORDER" ->
               [ next_action   |-> "ASK_ORDER_ID",
                 message       |-> "Please provide your order ID or AWB number to cancel",
                 required_info |-> "order_id" ]
          [] i = "RESCHEDULE_PICKUP" ->
               IF missing_fields # <<>>
               THEN [ next_action    |-> "ASK_MISSING_FIELDS",
                      missing_fields |-> missing_fields,
                      message        |-> "When would you like to reschedule the pickup?" ]
               ELSE [ next_action |-> "ASK_ORDER_ID",
                      message     |-> "Please provide your booking ID to reschedule",
                      new_time    |-> e.pickup_time ]
          [] i = "RAISE_COMPLAINT" -> raise_complaint(e)
          [] i = "CONNECT_TO_AGENT" ->
               [ next_action |-> "TRANSFER_TO_AGENT",
                 message     |-> "Connecting you to a customer service agent...",
                 priority    |-> "normal" ]
          [] i = "PAYMENT_QUERY" ->
               [ next_action     |-> "PROVIDE_PAYMENT_INFO",
                 message         |-> "We accept COD, UPI, cards, and online payment. Which option would you prefer?",
                 available_modes |-> <<"COD", "UPI", "Card", "Net Banking">> ]
          [] i = "DOCUMENT_UPLOAD_QUERY" ->
               [ next_action    |-> "PROVIDE_UPLOAD_LINK",
                 message        |-> "You can upload documents through our portal or app. What document do you need to upload?",
                 upload_options |-> <<"Invoice", "KYC", "GST Certificate", "ID Proof">> ]
          [] OTHER -> unknown_intent(i))

\* action_decider.py:86-232: the dict handed in is only read (.get and []),
\* so it is the same after the call.
entities_after_call(i, e) == e

\* No call made yet on the current entity dict.
NoCall == [next_action |-> "<none>"]

\* decide_action has returned for the current entity dict.
Called == directive # NoCall

\* The fields of an entity dict and the values each may hold.
EntityFields == DOMAIN CHOOSE e \in EntitySets : TRUE
FieldValues(f) == {e[f] : e \in EntitySets}

\* The state before the first call: the caller holds some entity dict.
InitDecider ==
    /\ entities \in EntitySets
    /\ supplied = entities
    /\ intent = ""
    /\ confidence = 100
    /\ directive = NoCall

\* One call decider.decide_action(i, entities, c)
\* (main.py:99-103, test_pipeline.py:84, action_decider.py:330-334).
DecideAction ==
    /\ \E i \in Intents, c \in Confidences :
        /\ intent' = i
        /\ confidence' = c
        /\ supplied' = entities
        /\ directive' = decide_action(i, entities, c)
        /\ entities' = entities_after_call(i, entities)
    /\ UNCHANGED <<cvars, xvars, pvars>>

\* The caller prepares the entity dict of its next request: one field differs
\* (entity_extractor.py:228-237 builds a fresh dict per request).
NewEntities ==
    /\ \E f \in EntityFields : \E v \in FieldValues(f) :
        /\ v # entities[f]
        /\ entities' = [entities EXCEPT ![f] = v]
        /\ supplied' = entities'
        /\ directive' = NoCall
        /\ intent' = ""
        /\ confidence' = 100
    /\ UNCHANGED <<cvars, xvars, pvars>>

(***************************************************************************)
(* Text: Python str operations and the regular expressions of the sources  *)
(*                                                                         *)
(* A text is the sequence of the Unicode code points of a str: Codes("kg") *)
(* is <<107, 103>>.  The character classes are those of CPython 3.11       *)
(* (Unicode 14.0), which str.lower, str.split, str.strip, int, float and   *)
(* the patterns \d, \w, \s and \b of the re module consult.                *)
(***************************************************************************)

\* The index of the entry of table T, among those from lo to hi, whose first
\* two fields enclose c, else 0; the entries are in increasing order.
RECURSIVE RangeIndex(_, _, _, _)
RangeIndex(T, c, lo, hi) ==
    IF lo > hi \/ c < T[lo][1] \/ c > T[hi][2] THEN 0
    ELSE CHOOSE result \in
             { IF c < T[mid][1] THEN RangeIndex(T, c, lo, mid - 1)
               ELSE IF c > T[mid][2] THEN RangeIndex(T, c, mid + 1, hi)
               ELSE mid
               : mid \in {(lo + hi) \div 2} } : TRUE

\* \d of the patterns and the digits int() and float() read: the decimal digits
\* of every script, each block from its zero to its nine.
DecimalDigits ==
    << <<48, 57>>, <<1632, 1641>>, <<1776, 1785>>, <<1984, 1993>>, <<2406, 2415>>, <<2534, 2543>>,
       <<2662, 2671>>, <<2790, 2799>>, <<2918, 2927>>, <<3046, 3055>>, <<3174, 3183>>, <<3302, 3311>>,
       <<3430, 3439>>, <<3558, 3567>>, <<3664, 3673>>, <<3792, 3801>>, <<3872, 3881>>, <<4160, 4169>>,
       <<4240, 4249>>, <<6112, 6121>>, <<6160, 6169>>, <<6470, 6479>>, <<6608, 6617>>, <<6784, 6793>>,
       <<6800, 6809>>, <<6992, 7001>>, <<7088, 7097>>, <<7232, 7241>>, <<7248, 7257>>, <<42528, 42537>>,
       <<43216, 43225>>, <<43264, 43273>>, <<43472, 43481>>, <<43504, 43513>>, <<43600, 43609>>, <<44016, 44025>>,
       <<65296, 65305>>, <<66720, 66729>>, <<68912, 68921>>, <<69734, 69743>>, <<69872, 69881>>, <<69942, 69951>>,
       <<70096, 70105>>, <<70384, 70393>>, <<70736, 70745>>, <<70864, 70873>>, <<71248, 71257>>, <<71360, 71369>>,
       <<71472, 71481>>, <<71904, 71913>>, <<72016, 72025>>, <<72784, 72793>>, <<73040, 73049>>, <<73120, 73129>>,
       <<92768, 92777>>, <<92864, 92873>>, <<93008, 93017>>, <<120782, 120791>>, <<120792, 120801>>, <<120802, 120811>>,
       <<120812, 120821>>, <<120822, 120831>>, <<123200, 123209>>, <<123632, 123641>>, <<125264, 125273>>, <<130032, 130041>> >>
IsDigit(c) == c \in 48..57 \/ (c > 57 /\ RangeIndex(DecimalDigits, c, 2, Len(DecimalDigits)) # 0)
\* The value of a decimal digit.
DigitValue(c) ==
    IF c <= 57 THEN c - 48
    ELSE c - DecimalDigits[RangeIndex(DecimalDigits, c, 2, Len(DecimalDigits))][1]

\* \s, str.isspace() and the separators of str.split() and str.strip(): the
\* controls 09-0D and 1C-1F, the blank, NEL, the no-break space and the
\* space separators, line separator and paragraph separator of Unicode.
IsSpace(c) ==
    \/ c \in 9..13 \/ c \in 28..32 \/ c = 133 \/ c = 160 \/ c = 5760
    \/ c \in 8192..8202 \/ c \in 8232..8233 \/ c = 8239 \/ c = 8287 \/ c = 12288

\* \w of the patterns: the alphanumeric characters (str.isalnum) and the
\* underscore, as ranges of code points.
WordCharacters ==
    << <<48, 57>>, <<65, 90>>, <<95, 95>>, <<97, 122>>, <<170, 170>>, <<178, 179>>,
       <<181, 181>>, <<185, 186>>, <<188, 190>>, <<192, 214>>, <<216, 246>>, <<248, 705>>,
       <<710, 721>>, <<736, 740>>, <<748, 748>>, <<750, 750>>, <<880, 884>>, <<886, 887>>,
       <<890, 893>>, <<895, 895>>, <<902, 902>>, <<904, 906>>, <<908, 908>>, <<910, 929>>,
       <<931, 1013>>, <<1015, 1153>>, <<1162, 1327>>, <<1329, 1366>>, <<1369, 1369>>, <<1376, 1416>>,
       <<1488, 1514>>, <<1519, 1522>>, <<1568, 1610>>, <<1632, 1641>>, <<1646, 1647>>, <<1649, 1747>>,
       <<1749, 1749>>, <<1765, 1766>>, <<1774, 1788>>, <<1791, 1791>>, <<1808, 1808>>, <<1810, 1839>>,
       <<1869, 1957>>, <<1969, 1969>>, <<1984, 2026>>, <<2036, 2037>>, <<2042, 2042>>, <<2048, 2069>>,
       <<2074, 2074>>, <<2084, 2084>>, <<2088, 2088>>, <<2112, 2136>>, <<2144, 2154>>, <<2160, 2183>>,
       <<2185, 2190>>, <<2208, 2249>>, <<2308, 2361>>, <<2365, 2365>>, <<2384, 2384>>, <<2392, 2401>>,
       <<2406, 2415>>, <<2417, 2432>>, <<2437, 2444>>, <<2447, 2448>>, <<2451, 2472>>, <<2474, 2480>>,
       <<2482, 2482>>, <<2486, 2489>>, <<2493, 2493>>, <<2510, 2510>>, <<2524, 2525>>, <<2527, 2529>>,
       <<2534, 2545>>, <<2548, 2553>>, <<2556, 2556>>, <<2565, 2570>>, <<2575, 2576>>, <<2579, 2600>>,
       <<2602, 2608>>, <<2610, 2611>>, <<2613, 2614>>, <<2616, 2617>>, <<2649, 2652>>, <<2654, 2654>>,
       <<2662, 2671>>, <<2674, 2676>>, <<2693, 2701>>, <<2703, 2705>>, <<2707, 2728>>, <<2730, 2736>>,
       <<2738, 2739>>, <<2741, 2745>>, <<2749, 2749>>, <<2768, 2768>>, <<2784, 2785>>, <<2790, 2799>>,
       <<2809, 2809>>, <<2821, 2828>>, <<2831, 2832>>, <<2835, 2856>>, <<2858, 2864>>, <<2866, 2867>>,
       <<2869, 2873>>, <<2877, 2877>>, <<2908, 2909>>, <<2911, 2913>>, <<2918, 2927>>, <<2929, 2935>>,
       <<2947, 2947>>, <<2949, 2954>>, <<2958, 2960>>, <<2962, 2965>>, <<2969, 2970>>, <<2972, 2972>>,
       <<2974, 2975>>, <<2979, 2980>>, <<2984, 2986>>, <<2990, 3001>>, <<3024, 3024>>, <<3046, 3058>>,
       <<3077, 3084>>, <<3086, 3088>>, <<3090, 3112>>, <<3114, 3129>>, <<3133, 3133>>, <<3160, 3162>>,
       <<3165, 3165>>, <<3168, 3169>>, <<3174, 3183>>, <<3192, 3198>>, <<3200, 3200>>, <<3205, 3212>>,
       <<3214, 3216>>, <<3218, 3240>>, <<3242, 3251>>, <<3253, 3257>>, <<3261, 3261>>, <<3293, 3294>>,
       <<3296, 3297>>, <<3302, 3311>>, <<3313, 3314>>, <<3332, 3340>>, <<3342, 3344>>, <<3346, 3386>>,
       <<3389, 3389>>, <<3406, 3406>>, <<3412, 3414>>, <<3416, 3425>>, <<3430, 3448>>, <<3450, 3455>>,
       <<3461, 3478>>, <<3482, 3505>>, <<3507, 3515>>, <<3517, 3517>>, <<3520, 3526>>, <<3558, 3567>>,
       <<3585, 3632>>, <<3634, 3635>>, <<3648, 3654>>, <<3664, 3673>>, <<3713, 3714>>, <<3716, 3716>>,
       <<3718, 3722>>, <<3724, 3747>>, <<3749, 3749>>, <<3751, 3760>>, <<3762, 3763>>, <<3773, 3773>>,
       <<3776, 3780>>, <<3782, 3782>>, <<3792, 3801>>, <<3804, 3807>>, <<3840, 3840>>, <<3872, 3891>>,
       <<3904, 3911>>, <<3913, 3948>>, <<3976, 3980>>, <<4096, 4138>>, <<4159, 4169>>, <<4176, 4181>>,
       <<4186, 4189>>, <<4193, 4193>>, <<4197, 4198>>, <<4206, 4208>>, <<4213, 4225>>, <<4238, 4238>>,
       <<4240, 4249>>, <<4256, 4293>>, <<4295, 4295>>, <<4301, 4301>>, <<4304, 4346>>, <<4348, 4680>>,
       <<4682, 4685>>, <<4688, 4694>>, <<4696, 4696>>, <<4698, 4701>>, <<4704, 4744>>, <<4746, 4749>>,
       <<4752, 4784>>, <<4786, 4789>>, <<4792, 4798>>, <<4800, 4800>>, <<4802, 4805>>, <<4808, 4822>>,
       <<4824, 4880>>, <<4882, 4885>>, <<4888, 4954>>, <<4969, 4988>>, <<4992, 5007>>, <<5024, 5109>>,
       <<5112, 5117>>, <<5121, 5740>>, <<5743, 5759>>, <<5761, 5786>>, <<5792, 5866>>, <<5870, 5880>>,
       <<5888, 5905>>, <<5919, 5937>>, <<5952, 5969>>, <<5984, 5996>>, <<5998, 6000>>, <<6016, 6067>>,
       <<6103, 6103>>, <<6108, 6108>>, <<6112, 6121>>, <<6128, 6137>>, <<6160, 6169>>, <<6176, 6264>>,
       <<6272, 6276>>, <<6279, 6312>>, <<6314, 6314>>, <<6320, 6389>>, <<6400, 6430>>, <<6470, 6509>>,
       <<6512, 6516>>, <<6528, 6571>>, <<6576, 6601>>, <<6608, 6618>>, <<6656, 6678>>, <<6688, 6740>>,
       <<6784, 6793>>, <<6800, 6809>>, <<6823, 6823>>, <<6917, 6963>>, <<6981, 6988>>, <<6992, 7001>>,
       <<7043, 7072>>, <<7086, 7141>>, <<7168, 7203>>, <<7232, 7241>>, <<7245, 7293>>, <<7296, 7304>>,
       <<7312, 7354>>, <<7357, 7359>>, <<7401, 7404>>, <<7406, 7411>>, <<7413, 7414>>, <<7418, 7418>>,
       <<7424, 7615>>, <<7680, 7957>>, <<7960, 7965>>, <<7968, 8005>>, <<8008, 8013>>, <<8016, 8023>>,
       <<8025, 8025>>, <<8027, 8027>>, <<8029, 8029>>, <<8031, 8061>>, <<8064, 8116>>, <<8118, 8124>>,
       <<8126, 8126>>, <<8130, 8132>>, <<8134, 8140>>, <<8144, 8147>>, <<8150, 8155>>, <<8160, 8172>>,
       <<8178, 8180>>, <<8182, 8188>>, <<8304, 8305>>, <<8308, 8313>>, <<8319, 8329>>, <<8336, 8348>>,
       <<8450, 8450>>, <<8455, 8455>>, <<8458, 8467>>, <<8469, 8469>>, <<8473, 8477>>, <<8484, 8484>>,
       <<8486, 8486>>, <<8488, 8488>>, <<8490, 8493>>, <<8495, 8505>>, <<8508, 8511>>, <<8517, 8521>>,
       <<8526, 8526>>, <<8528, 8585>>, <<9312, 9371>>, <<9450, 9471>>, <<10102, 10131>>, <<11264, 11492>>,
       <<11499, 11502>>, <<11506, 11507>>, <<11517, 11517>>, <<11520, 11557>>, <<11559, 11559>>, <<11565, 11565>>,
       <<11568, 11623>>, <<11631, 11631>>, <<11648, 11670>>, <<11680, 11686>>, <<11688, 11694>>, <<11696, 11702>>,
       <<11704, 11710>>, <<11712, 11718>>, <<11720, 11726>>, <<11728, 11734>>, <<11736, 11742>>, <<11823, 11823>>,
       <<12293, 12295>>, <<12321, 12329>>, <<12337, 12341>>, <<12344, 12348>>, <<12353, 12438>>, <<12445, 12447>>,
       <<12449, 12538>>, <<12540, 12543>>, <<12549, 12591>>, <<12593, 12686>>, <<12690, 12693>>, <<12704, 12735>>,
       <<12784, 12799>>, <<12832, 12841>>, <<12872, 12879>>, <<12881, 12895>>, <<12928, 12937>>, <<12977, 12991>>,
       <<13312, 19903>>, <<19968, 42124>>, <<42192, 42237>>, <<42240, 42508>>, <<42512, 42539>>, <<42560, 42606>>,
       <<42623, 42653>>, <<42656, 42735>>, <<42775, 42783>>, <<42786, 42888>>, <<42891, 42954>>, <<42960, 42961>>,
       <<42963, 42963>>, <<42965, 42969>>, <<42994, 43009>>, <<43011, 43013>>, <<43015, 43018>>, <<43020, 43042>>,
       <<43056, 43061>>, <<43072, 43123>>, <<43138, 43187>>, <<43216, 43225>>, <<43250, 43255>>, <<43259, 43259>>,
       <<43261, 43262>>, <<43264, 43301>>, <<43312, 43334>>, <<43360, 43388>>, <<43396, 43442>>, <<43471, 43481>>,
       <<43488, 43492>>, <<43494, 43518>>, <<43520, 43560>>, <<43584, 43586>>, <<43588, 43595>>, <<43600, 43609>>,
       <<43616, 43638>>, <<43642, 43642>>, <<43646, 43695>>, <<43697, 43697>>, <<43701, 43702>>, <<43705, 43709>>,
       <<43712, 43712>>, <<43714, 43714>>, <<43739, 43741>>, <<43744, 43754>>, <<43762, 43764>>, <<43777, 43782>>,
       <<43785, 43790>>, <<43793, 43798>>, <<43808, 43814>>, <<43816, 43822>>, <<43824, 43866>>, <<43868, 43881>>,
       <<43888, 44002>>, <<44016, 44025>>, <<44032, 55203>>, <<55216, 55238>>, <<55243, 55291>>, <<63744, 64109>>,
       <<64112, 64217>>, <<64256, 64262>>, <<64275, 64279>>, <<64285, 64285>>, <<64287, 64296>>, <<64298, 64310>>,
       <<64312, 64316>>, <<64318, 64318>>, <<64320, 64321>>, <<64323, 64324>>, <<64326, 64433>>, <<64467, 64829>>,
       <<64848, 64911>>, <<64914, 64967>>, <<65008, 65019>>, <<65136, 65140>>, <<65142, 65276>>, <<65296, 65305>>,
       <<65313, 65338>>, <<65345, 65370>>, <<65382, 65470>>, <<65474, 65479>>, <<65482, 65487>>, <<65490, 65495>>,
       <<65498, 65500>>, <<65536, 65547>>, <<65549, 65574>>, <<65576, 65594>>, <<65596, 65597>>, <<65599, 65613>>,
       <<65616, 65629>>, <<65664, 65786>>, <<65799, 65843>>, <<65856, 65912>>, <<65930, 65931>>, <<66176, 66204>>,
       <<66208, 66256>>, <<66273, 66299>>, <<66304, 66339>>, <<66349, 66378>>, <<66384, 66421>>, <<66432, 66461>>,
       <<66464, 66499>>, <<66504, 66511>>, <<66513, 66517>>, <<66560, 66717>>, <<66720, 66729>>, <<66736, 66771>>,
       <<66776, 66811>>, <<66816, 66855>>, <<66864, 66915>>, <<66928, 66938>>, <<66940, 66954>>, <<66956, 66962>>,
       <<66964, 66965>>, <<66967, 66977>>, <<66979, 66993>>, <<66995, 67001>>, <<67003, 67004>>, <<67072, 67382>>,
       <<67392, 67413>>, <<67424, 67431>>, <<67456, 67461>>, <<67463, 67504>>, <<67506, 67514>>, <<67584, 67589>>,
       <<67592, 67592>>, <<67594, 67637>>, <<67639, 67640>>, <<67644, 67644>>, <<67647, 67669>>, <<67672, 67702>>,
       <<67705, 67742>>, <<67751, 67759>>, <<67808, 67826>>, <<67828, 67829>>, <<67835, 67867>>, <<67872, 67897>>,
       <<67968, 68023>>, <<68028, 68047>>, <<68050, 68096>>, <<68112, 68115>>, <<68117, 68119>>, <<68121, 68149>>,
       <<68160, 68168>>, <<68192, 68222>>, <<68224, 68255>>, <<68288, 68295>>, <<68297, 68324>>, <<68331, 68335>>,
       <<68352, 68405>>, <<68416, 68437>>, <<68440, 68466>>, <<68472, 68497>>, <<68521, 68527>>, <<68608, 68680>>,
       <<68736, 68786>>, <<68800, 68850>>, <<68858, 68899>>, <<68912, 68921>>, <<69216, 69246>>, <<69248, 69289>>,
       <<69296, 69297>>, <<69376, 69415>>, <<69424, 69445>>, <<69457, 69460>>, <<69488, 69505>>, <<69552, 69579>>,
       <<69600, 69622>>, <<69635, 69687>>, <<69714, 69743>>, <<69745, 69746>>, <<69749, 69749>>, <<69763, 69807>>,
       <<69840, 69864>>, <<69872, 69881>>, <<69891, 69926>>, <<69942, 69951>>, <<69956, 69956>>, <<69959, 69959>>,
       <<69968, 70002>>, <<70006, 70006>>, <<70019, 70066>>, <<70081, 70084>>, <<70096, 70106>>, <<70108, 70108>>,
       <<70113, 70132>>, <<70144, 70161>>, <<70163, 70187>>, <<70272, 70278>>, <<70280, 70280>>, <<70282, 70285>>,
       <<70287, 70301>>, <<70303, 70312>>, <<70320, 70366>>, <<70384, 70393>>, <<70405, 70412>>, <<70415, 70416>>,
       <<70419, 70440>>, <<70442, 70448>>, <<70450, 70451>>, <<70453, 70457>>, <<70461, 70461>>, <<70480, 70480>>,
       <<70493, 70497>>, <<70656, 70708>>, <<70727, 70730>>, <<70736, 70745>>, <<70751, 70753>>, <<70784, 70831>>,
       <<70852, 70853>>, <<70855, 70855>>, <<70864, 70873>>, <<71040, 71086>>, <<71128, 71131>>, <<71168, 71215>>,
       <<71236, 71236>>, <<71248, 71257>>, <<71296, 71338>>, <<71352, 71352>>, <<71360, 71369>>, <<71424, 71450>>,
       <<71472, 71483>>, <<71488, 71494>>, <<71680, 71723>>, <<71840, 71922>>, <<71935, 71942>>, <<71945, 71945>>,
       <<71948, 71955>>, <<71957, 71958>>, <<71960, 71983>>, <<71999, 71999>>, <<72001, 72001>>, <<72016, 72025>>,
       <<72096, 72103>>, <<72106, 72144>>, <<72161, 72161>>, <<72163, 72163>>, <<72192, 72192>>, <<72203, 72242>>,
       <<72250, 72250>>, <<72272, 72272>>, <<72284, 72329>>, <<72349, 72349>>, <<72368, 72440>>, <<72704, 72712>>,
       <<72714, 72750>>, <<72768, 72768>>, <<72784, 72812>>, <<72818, 72847>>, <<72960, 72966>>, <<72968, 72969>>,
       <<72971, 73008>>, <<73030, 73030>>, <<73040, 73049>>, <<73056, 73061>>, <<73063, 73064>>, <<73066, 73097>>,
       <<73112, 73112>>, <<73120, 73129>>, <<73440, 73458>>, <<73648, 73648>>, <<73664, 73684>>, <<73728, 74649>>,
       <<74752, 74862>>, <<74880, 75075>>, <<77712, 77808>>, <<77824, 78894>>, <<82944, 83526>>, <<92160, 92728>>,
       <<92736, 92766>>, <<92768, 92777>>, <<92784, 92862>>, <<92864, 92873>>, <<92880, 92909>>, <<92928, 92975>>,
       <<92992, 92995>>, <<93008, 93017>>, <<93019, 93025>>, <<93027, 93047>>, <<93053, 93071>>, <<93760, 93846>>,
       <<93952, 94026>>, <<94032, 94032>>, <<94099, 94111>>, <<94176, 94177>>, <<94179, 94179>>, <<94208, 100343>>,
       <<100352, 101589>>, <<101632, 101640>>, <<110576, 110579>>, <<110581, 110587>>, <<110589, 110590>>, <<110592, 110882>>,
       <<110928, 110930>>, <<110948, 110951>>, <<110960, 111355>>, <<113664, 113770>>, <<113776, 113788>>, <<113792, 113800>>,
       <<113808, 113817>>, <<119520, 119539>>, <<119648, 119672>>, <<119808, 119892>>, <<119894, 119964>>, <<119966, 119967>>,
       <<119970, 119970>>, <<119973, 119974>>, <<119977, 119980>>, <<119982, 119993>>, <<119995, 119995>>, <<119997, 120003>>,
       <<120005, 120069>>, <<120071, 120074>>, <<120077, 120084>>, <<120086, 120092>>, <<120094, 120121>>, <<120123, 120126>>,
       <<120128, 120132>>, <<120134, 120134>>, <<120138, 120144>>, <<120146, 120485>>, <<120488, 120512>>, <<120514, 120538>>,
       <<120540, 120570>>, <<120572, 120596>>, <<120598, 120628>>, <<120630, 120654>>, <<120656, 120686>>, <<120688, 120712>>,
       <<120714, 120744>>, <<120746, 120770>>, <<120772, 120779>>, <<120782, 120831>>, <<122624, 122654>>, <<123136, 123180>>,
       <<123191, 123197>>, <<123200, 123209>>, <<123214, 123214>>, <<123536, 123565>>, <<123584, 123627>>, <<123632, 123641>>,
       <<124896, 124902>>, <<124904, 124907>>, <<124909, 124910>>, <<124912, 124926>>, <<124928, 125124>>, <<125127, 125135>>,
       <<125184, 125251>>, <<125259, 125259>>, <<125264, 125273>>, <<126065, 126123>>, <<126125, 126127>>, <<126129, 126132>>,
       <<126209, 126253>>, <<126255, 126269>>, <<126464, 126467>>, <<126469, 126495>>, <<126497, 126498>>, <<126500, 126500>>,
       <<126503, 126503>>, <<126505, 126514>>, <<126516, 126519>>, <<126521, 126521>>, <<126523, 126523>>, <<126530, 126530>>,
       <<126535, 126535>>, <<126537, 126537>>, <<126539, 126539>>, <<126541, 126543>>, <<126545, 126546>>, <<126548, 126548>>,
       <<126551, 126551>>, <<126553, 126553>>, <<126555, 126555>>, <<126557, 126557>>, <<126559, 126559>>, <<126561, 126562>>,
       <<126564, 126564>>, <<126567, 126570>>, <<126572, 126578>>, <<126580, 126583>>, <<126585, 126588>>, <<126590, 126590>>,
       <<126592, 126601>>, <<126603, 126619>>, <<126625, 126627>>, <<126629, 126633>>, <<126635, 126651>>, <<127232, 127244>>,
       <<130032, 130041>>, <<131072, 173791>>, <<173824, 177976>>, <<177984, 178205>>, <<178208, 183969>>, <<183984, 191456>>,
       <<194560, 195101>>, <<196608, 201546>> >>
IsWord(c) == RangeIndex(WordCharacters, c, 1, Len(WordCharacters)) # 0

\* The characters str.lower() maps to one other character: <<first, last,
\* step, offset>> maps first, first + step, ... , last to itself plus offset.
LowerRuns ==
    << <<65, 90, 1, 32>>, <<192, 214, 1, 32>>, <<216, 222, 1, 32>>, <<256, 302, 2, 1>>,
       <<306, 310, 2, 1>>, <<313, 327, 2, 1>>, <<330, 374, 2, 1>>, <<376, 376, 1, -121>>,
       <<377, 381, 2, 1>>, <<385, 385, 1, 210>>, <<386, 388, 2, 1>>, <<390, 390, 1, 206>>,
       <<391, 391, 1, 1>>, <<393, 394, 1, 205>>, <<395, 395, 1, 1>>, <<398, 398, 1, 79>>,
       <<399, 399, 1, 202>>, <<400, 400, 1, 203>>, <<401, 401, 1, 1>>, <<403, 403, 1, 205>>,
       <<404, 404, 1, 207>>, <<406, 406, 1, 211>>, <<407, 407, 1, 209>>, <<408, 408, 1, 1>>,
       <<412, 412, 1, 211>>, <<413, 413, 1, 213>>, <<415, 415, 1, 214>>, <<416, 420, 2, 1>>,
       <<422, 422, 1, 218>>, <<423, 423, 1, 1>>, <<425, 425, 1, 218>>, <<428, 428, 1, 1>>,
       <<430, 430, 1, 218>>, <<431, 431, 1, 1>>, <<433, 434, 1, 217>>, <<435, 437, 2, 1>>,
       <<439, 439, 1, 219>>, <<440, 440, 1, 1>>, <<444, 444, 1, 1>>, <<452, 452, 1, 2>>,
       <<453, 453, 1, 1>>, <<455, 455, 1, 2>>, <<456, 456, 1, 1>>, <<458, 458, 1, 2>>,
       <<459, 475, 2, 1>>, <<478, 494, 2, 1>>, <<497, 497, 1, 2>>, <<498, 500, 2, 1>>,
       <<502, 502, 1, -97>>, <<503, 503, 1, -56>>, <<504, 542, 2, 1>>, <<544, 544, 1, -130>>,
       <<546, 562, 2, 1>>, <<570, 570, 1, 10795>>, <<571, 571, 1, 1>>, <<573, 573, 1, -163>>,
       <<574, 574, 1, 10792>>, <<577, 577, 1, 1>>, <<579, 579, 1, -195>>, <<580, 580, 1, 69>>,
       <<581, 581, 1, 71>>, <<582, 590, 2, 1>>, <<880, 882, 2, 1>>, <<886, 886, 1, 1>>,
       <<895, 895, 1, 116>>, <<902, 902, 1, 38>>, <<904, 906, 1, 37>>, <<908, 908, 1, 64>>,
       <<910, 911, 1, 63>>, <<913, 929, 1, 32>>, <<932, 939, 1, 32>>, <<975, 975, 1, 8>>,
       <<984, 1006, 2, 1>>, <<1012, 1012, 1, -60>>, <<1015, 1015, 1, 1>>, <<1017, 1017, 1, -7>>,
       <<1018, 1018, 1, 1>>, <<1021, 1023, 1, -130>>, <<1024, 1039, 1, 80>>, <<1040, 1071, 1, 32>>,
       <<1120, 1152, 2, 1>>, <<1162, 1214, 2, 1>>, <<1216, 1216, 1, 15>>, <<1217, 1229, 2, 1>>,
       <<1232, 1326, 2, 1>>, <<1329, 1366, 1, 48>>, <<4256, 4293, 1, 7264>>, <<4295, 4295, 1, 7264>>,
       <<4301, 4301, 1, 7264>>, <<5024, 5103, 1, 38864>>, <<5104, 5109, 1, 8>>, <<7312, 7354, 1, -3008>>,
       <<7357, 7359, 1, -3008>>, <<7680, 7828, 2, 1>>, <<7838, 7838, 1, -7615>>, <<7840, 7934, 2, 1>>,
       <<7944, 7951, 1, -8>>, <<7960, 7965, 1, -8>>, <<7976, 7983, 1, -8>>, <<7992, 7999, 1, -8>>,
       <<8008, 8013, 1, -8>>, <<8025, 8031, 2, -8>>, <<8040, 8047, 1, -8>>, <<8072, 8079, 1, -8>>,
       <<8088, 8095, 1, -8>>, <<8104, 8111, 1, -8>>, <<8120, 8121, 1, -8>>, <<8122, 8123, 1, -74>>,
       <<8124, 8124, 1, -9>>, <<8136, 8139, 1, -86>>, <<8140, 8140, 1, -9>>, <<8152, 8153, 1, -8>>,
       <<8154, 8155, 1, -100>>, <<8168, 8169, 1, -8>>, <<8170, 8171, 1, -112>>, <<8172, 8172, 1, -7>>,
       <<8184, 8185, 1, -128>>, <<8186, 8187, 1, -126>>, <<8188, 8188, 1, -9>>, <<8486, 8486, 1, -7517>>,
       <<8490, 8490, 1, -8383>>, <<8491, 8491, 1, -8262>>, <<8498, 8498, 1, 28>>, <<8544, 8559, 1, 16>>,
       <<8579, 8579, 1, 1>>, <<9398, 9423, 1, 26>>, <<11264, 11311, 1, 48>>, <<11360, 11360, 1, 1>>,
       <<11362, 11362, 1, -10743>>, <<11363, 11363, 1, -3814>>, <<11364, 11364, 1, -10727>>, <<11367, 11371, 2, 1>>,
       <<11373, 11373, 1, -10780>>, <<11374, 11374, 1, -10749>>, <<11375, 11375, 1, -10783>>, <<11376, 11376, 1, -10782>>,
       <<11378, 11378, 1, 1>>, <<11381, 11381, 1, 1>>, <<11390, 11391, 1, -10815>>, <<11392, 11490, 2, 1>>,
       <<11499, 11501, 2, 1>>, <<11506, 11506, 1, 1>>, <<42560, 42604, 2, 1>>, <<42624, 42650, 2, 1>>,
       <<42786, 42798, 2, 1>>, <<42802, 42862, 2, 1>>, <<42873, 42875, 2, 1>>, <<42877, 42877, 1, -35332>>,
       <<42878, 42886, 2, 1>>, <<42891, 42891, 1, 1>>, <<42893, 42893, 1, -42280>>, <<42896, 42898, 2, 1>>,
       <<42902, 42920, 2, 1>>, <<42922, 42922, 1, -42308>>, <<42923, 42923, 1, -42319>>, <<42924, 42924, 1, -42315>>,
       <<42925, 42925, 1, -42305>>, <<42926, 42926, 1, -42308>>, <<42928, 42928, 1, -42258>>, <<42929, 42929, 1, -42282>>,
       <<42930, 42930, 1, -42261>>, <<42931, 42931, 1, 928>>, <<42932, 42946, 2, 1>>, <<42948, 42948, 1, -48>>,
       <<42949, 42949, 1, -42307>>, <<42950, 42950, 1, -35384>>, <<42951, 42953, 2, 1>>, <<42960, 42960, 1, 1>>,
       <<42966, 42968, 2, 1>>, <<42997, 42997, 1, 1>>, <<65313, 65338, 1, 32>>, <<66560, 66599, 1, 40>>,
       <<66736, 66771, 1, 40>>, <<66928, 66938, 1, 39>>, <<66940, 66954, 1, 39>>, <<66956, 66962, 1, 39>>,
       <<66964, 66965, 1, 39>>, <<68736, 68786, 1, 64>>, <<71840, 71871, 1, 32>>, <<93760, 93791, 1, 32>>,
       <<125184, 125217, 1, 34>> >>
\* The lower-case form of a character that has one of a single character.
LowerChar(c) ==
    CHOOSE result \in
        { IF k # 0 /\ (c - LowerRuns[k][1]) % LowerRuns[k][3] = 0
          THEN c + LowerRuns[k][4] ELSE c
          : k \in {RangeIndex(LowerRuns, c, 1, Len(LowerRuns))} } : TRUE

\* The cased characters (upper case, lower case or title case).
Cased ==
    << <<65, 90>>, <<97, 122>>, <<170, 170>>, <<181, 181>>, <<186, 186>>, <<192, 214>>,
       <<216, 246>>, <<248, 442>>, <<444, 447>>, <<452, 659>>, <<661, 696>>, <<704, 705>>,
       <<736, 740>>, <<837, 837>>, <<880, 883>>, <<886, 887>>, <<890, 893>>, <<895, 895>>,
       <<902, 902>>, <<904, 906>>, <<908, 908>>, <<910, 929>>, <<931, 1013>>, <<1015, 1153>>,
       <<1162, 1327>>, <<1329, 1366>>, <<1376, 1416>>, <<4256, 4293>>, <<4295, 4295>>, <<4301, 4301>>,
       <<4304, 4346>>, <<4349, 4351>>, <<5024, 5109>>, <<5112, 5117>>, <<7296, 7304>>, <<7312, 7354>>,
       <<7357, 7359>>, <<7424, 7615>>, <<7680, 7957>>, <<7960, 7965>>, <<7968, 8005>>, <<8008, 8013>>,
       <<8016, 8023>>, <<8025, 8025>>, <<8027, 8027>>, <<8029, 8029>>, <<8031, 8061>>, <<8064, 8116>>,
       <<8118, 8124>>, <<8126, 8126>>, <<8130, 8132>>, <<8134, 8140>>, <<8144, 8147>>, <<8150, 8155>>,
       <<8160, 8172>>, <<8178, 8180>>, <<8182, 8188>>, <<8305, 8305>>, <<8319, 8319>>, <<8336, 8348>>,
       <<8450, 8450>>, <<8455, 8455>>, <<8458, 8467>>, <<8469, 8469>>, <<8473, 8477>>, <<8484, 8484>>,
       <<8486, 8486>>, <<8488, 8488>>, <<8490, 8493>>, <<8495, 8500>>, <<8505, 8505>>, <<8508, 8511>>,
       <<8517, 8521>>, <<8526, 8526>>, <<8544, 8575>>, <<8579, 8580>>, <<9398, 9449>>, <<11264, 11492>>,
       <<11499, 11502>>, <<11506, 11507>>, <<11520, 11557>>, <<11559, 11559>>, <<11565, 11565>>, <<42560, 42605>>,
       <<42624, 42653>>, <<42786, 42887>>, <<42891, 42894>>, <<42896, 42954>>, <<42960, 42961>>, <<42963, 42963>>,
       <<42965, 42969>>, <<42997, 42998>>, <<43000, 43002>>, <<43824, 43866>>, <<43868, 43880>>, <<43888, 43967>>,
       <<64256, 64262>>, <<64275, 64279>>, <<65313, 65338>>, <<65345, 65370>>, <<66560, 66639>>, <<66736, 66771>>,
       <<66776, 66811>>, <<66928, 66938>>, <<66940, 66954>>, <<66956, 66962>>, <<66964, 66965>>, <<66967, 66977>>,
       <<66979, 66993>>, <<66995, 67001>>, <<67003, 67004>>, <<67456, 67456>>, <<67459, 67461>>, <<67463, 67504>>,
       <<67506, 67514>>, <<68736, 68786>>, <<68800, 68850>>, <<71840, 71903>>, <<93760, 93823>>, <<119808, 119892>>,
       <<119894, 119964>>, <<119966, 119967>>, <<119970, 119970>>, <<119973, 119974>>, <<119977, 119980>>, <<119982, 119993>>,
       <<119995, 119995>>, <<119997, 120003>>, <<120005, 120069>>, <<120071, 120074>>, <<120077, 120084>>, <<120086, 120092>>,
       <<120094, 120121>>, <<120123, 120126>>, <<120128, 120132>>, <<120134, 120134>>, <<120138, 120144>>, <<120146, 120485>>,
       <<120488, 120512>>, <<120514, 120538>>, <<120540, 120570>>, <<120572, 120596>>, <<120598, 120628>>, <<120630, 120654>>,
       <<120656, 120686>>, <<120688, 120712>>, <<120714, 120744>>, <<120746, 120770>>, <<120772, 120779>>, <<122624, 122633>>,
       <<122635, 122654>>, <<125184, 125251>>, <<127280, 127305>>, <<127312, 127337>>, <<127344, 127369>> >>
\* The case-ignorable characters: marks, modifiers and word-internal
\* punctuation that str.lower() looks through around a capital sigma.
CaseIgnorable ==
    << <<39, 39>>, <<46, 46>>, <<58, 58>>, <<94, 94>>, <<96, 96>>, <<168, 168>>,
       <<173, 173>>, <<175, 175>>, <<180, 180>>, <<183, 184>>, <<688, 879>>, <<884, 885>>,
       <<890, 890>>, <<900, 901>>, <<903, 903>>, <<1155, 1161>>, <<1369, 1369>>, <<1375, 1375>>,
       <<1425, 1469>>, <<1471, 1471>>, <<1473, 1474>>, <<1476, 1477>>, <<1479, 1479>>, <<1524, 1524>>,
       <<1536, 1541>>, <<1552, 1562>>, <<1564, 1564>>, <<1600, 1600>>, <<1611, 1631>>, <<1648, 1648>>,
       <<1750, 1757>>, <<1759, 1768>>, <<1770, 1773>>, <<1807, 1807>>, <<1809, 1809>>, <<1840, 1866>>,
       <<1958, 1968>>, <<2027, 2037>>, <<2042, 2042>>, <<2045, 2045>>, <<2070, 2093>>, <<2137, 2139>>,
       <<2184, 2184>>, <<2192, 2193>>, <<2200, 2207>>, <<2249, 2306>>, <<2362, 2362>>, <<2364, 2364>>,
       <<2369, 2376>>, <<2381, 2381>>, <<2385, 2391>>, <<2402, 2403>>, <<2417, 2417>>, <<2433, 2433>>,
       <<2492, 2492>>, <<2497, 2500>>, <<2509, 2509>>, <<2530, 2531>>, <<2558, 2558>>, <<2561, 2562>>,
       <<2620, 2620>>, <<2625, 2626>>, <<2631, 2632>>, <<2635, 2637>>, <<2641, 2641>>, <<2672, 2673>>,
       <<2677, 2677>>, <<2689, 2690>>, <<2748, 2748>>, <<2753, 2757>>, <<2759, 2760>>, <<2765, 2765>>,
       <<2786, 2787>>, <<2810, 2815>>, <<2817, 2817>>, <<2876, 2876>>, <<2879, 2879>>, <<2881, 2884>>,
       <<2893, 2893>>, <<2901, 2902>>, <<2914, 2915>>, <<2946, 2946>>, <<3008, 3008>>, <<3021, 3021>>,
       <<3072, 3072>>, <<3076, 3076>>, <<3132, 3132>>, <<3134, 3136>>, <<3142, 3144>>, <<3146, 3149>>,
       <<3157, 3158>>, <<3170, 3171>>, <<3201, 3201>>, <<3260, 3260>>, <<3263, 3263>>, <<3270, 3270>>,
       <<3276, 3277>>, <<3298, 3299>>, <<3328, 3329>>, <<3387, 3388>>, <<3393, 3396>>, <<3405, 3405>>,
       <<3426, 3427>>, <<3457, 3457>>, <<3530, 3530>>, <<3538, 3540>>, <<3542, 3542>>, <<3633, 3633>>,
       <<3636, 3642>>, <<3654, 3662>>, <<3761, 3761>>, <<3764, 3772>>, <<3782, 3782>>, <<3784, 3789>>,
       <<3864, 3865>>, <<3893, 3893>>, <<3895, 3895>>, <<3897, 3897>>, <<3953, 3966>>, <<3968, 3972>>,
       <<3974, 3975>>, <<3981, 3991>>, <<3993, 4028>>, <<4038, 4038>>, <<4141, 4144>>, <<4146, 4151>>,
       <<4153, 4154>>, <<4157, 4158>>, <<4184, 4185>>, <<4190, 4192>>, <<4209, 4212>>, <<4226, 4226>>,
       <<4229, 4230>>, <<4237, 4237>>, <<4253, 4253>>, <<4348, 4348>>, <<4957, 4959>>, <<5906, 5908>>,
       <<5938, 5939>>, <<5970, 5971>>, <<6002, 6003>>, <<6068, 6069>>, <<6071, 6077>>, <<6086, 6086>>,
       <<6089, 6099>>, <<6103, 6103>>, <<6109, 6109>>, <<6155, 6159>>, <<6211, 6211>>, <<6277, 6278>>,
       <<6313, 6313>>, <<6432, 6434>>, <<6439, 6440>>, <<6450, 6450>>, <<6457, 6459>>, <<6679, 6680>>,
       <<6683, 6683>>, <<6742, 6742>>, <<6744, 6750>>, <<6752, 6752>>, <<6754, 6754>>, <<6757, 6764>>,
       <<6771, 6780>>, <<6783, 6783>>, <<6823, 6823>>, <<6832, 6862>>, <<6912, 6915>>, <<6964, 6964>>,
       <<6966, 6970>>, <<6972, 6972>>, <<6978, 6978>>, <<7019, 7027>>, <<7040, 7041>>, <<7074, 7077>>,
       <<7080, 7081>>, <<7083, 7085>>, <<7142, 7142>>, <<7144, 7145>>, <<7149, 7149>>, <<7151, 7153>>,
       <<7212, 7219>>, <<7222, 7223>>, <<7288, 7293>>, <<7376, 7378>>, <<7380, 7392>>, <<7394, 7400>>,
       <<7405, 7405>>, <<7412, 7412>>, <<7416, 7417>>, <<7468, 7530>>, <<7544, 7544>>, <<7579, 7679>>,
       <<8125, 8125>>, <<8127, 8129>>, <<8141, 8143>>, <<8157, 8159>>, <<8173, 8175>>, <<8189, 8190>>,
       <<8203, 8207>>, <<8216, 8217>>, <<8228, 8228>>, <<8231, 8231>>, <<8234, 8238>>, <<8288, 8292>>,
       <<8294, 8303>>, <<8305, 8305>>, <<8319, 8319>>, <<8336, 8348>>, <<8400, 8432>>, <<11388, 11389>>,
       <<11503, 11505>>, <<11631, 11631>>, <<11647, 11647>>, <<11744, 11775>>, <<11823, 11823>>, <<12293, 12293>>,
       <<12330, 12333>>, <<12337, 12341>>, <<12347, 12347>>, <<12441, 12446>>, <<12540, 12542>>, <<40981, 40981>>,
       <<42232, 42237>>, <<42508, 42508>>, <<42607, 42610>>, <<42612, 42621>>, <<42623, 42623>>, <<42652, 42655>>,
       <<42736, 42737>>, <<42752, 42785>>, <<42864, 42864>>, <<42888, 42890>>, <<42994, 42996>>, <<43000, 43001>>,
       <<43010, 43010>>, <<43014, 43014>>, <<43019, 43019>>, <<43045, 43046>>, <<43052, 43052>>, <<43204, 43205>>,
       <<43232, 43249>>, <<43263, 43263>>, <<43302, 43309>>, <<43335, 43345>>, <<43392, 43394>>, <<43443, 43443>>,
       <<43446, 43449>>, <<43452, 43453>>, <<43471, 43471>>, <<43493, 43494>>, <<43561, 43566>>, <<43569, 43570>>,
       <<43573, 43574>>, <<43587, 43587>>, <<43596, 43596>>, <<43632, 43632>>, <<43644, 43644>>, <<43696, 43696>>,
       <<43698, 43700>>, <<43703, 43704>>, <<43710, 43711>>, <<43713, 43713>>, <<43741, 43741>>, <<43756, 43757>>,
       <<43763, 43764>>, <<43766, 43766>>, <<43867, 43871>>, <<43881, 43883>>, <<44005, 44005>>, <<44008, 44008>>,
       <<44013, 44013>>, <<64286, 64286>>, <<64434, 64450>>, <<65024, 65039>>, <<65043, 65043>>, <<65056, 65071>>,
       <<65106, 65106>>, <<65109, 65109>>, <<65279, 65279>>, <<65287, 65287>>, <<65294, 65294>>, <<65306, 65306>>,
       <<65342, 65342>>, <<65344, 65344>>, <<65392, 65392>>, <<65438, 65439>>, <<65507, 65507>>, <<65529, 65531>>,
       <<66045, 66045>>, <<66272, 66272>>, <<66422, 66426>>, <<67456, 67461>>, <<67463, 67504>>, <<67506, 67514>>,
       <<68097, 68099>>, <<68101, 68102>>, <<68108, 68111>>, <<68152, 68154>>, <<68159, 68159>>, <<68325, 68326>>,
       <<68900, 68903>>, <<69291, 69292>>, <<69446, 69456>>, <<69506, 69509>>, <<69633, 69633>>, <<69688, 69702>>,
       <<69744, 69744>>, <<69747, 69748>>, <<69759, 69761>>, <<69811, 69814>>, <<69817, 69818>>, <<69821, 69821>>,
       <<69826, 69826>>, <<69837, 69837>>, <<69888, 69890>>, <<69927, 69931>>, <<69933, 69940>>, <<70003, 70003>>,
       <<70016, 70017>>, <<70070, 70078>>, <<70089, 70092>>, <<70095, 70095>>, <<70191, 70193>>, <<70196, 70196>>,
       <<70198, 70199>>, <<70206, 70206>>, <<70367, 70367>>, <<70371, 70378>>, <<70400, 70401>>, <<70459, 70460>>,
       <<70464, 70464>>, <<70502, 70508>>, <<70512, 70516>>, <<70712, 70719>>, <<70722, 70724>>, <<70726, 70726>>,
       <<70750, 70750>>, <<70835, 70840>>, <<70842, 70842>>, <<70847, 70848>>, <<70850, 70851>>, <<71090, 71093>>,
       <<71100, 71101>>, <<71103, 71104>>, <<71132, 71133>>, <<71219, 71226>>, <<71229, 71229>>, <<71231, 71232>>,
       <<71339, 71339>>, <<71341, 71341>>, <<71344, 71349>>, <<71351, 71351>>, <<71453, 71455>>, <<71458, 71461>>,
       <<71463, 71467>>, <<71727, 71735>>, <<71737, 71738>>, <<71995, 71996>>, <<71998, 71998>>, <<72003, 72003>>,
       <<72148, 72151>>, <<72154, 72155>>, <<72160, 72160>>, <<72193, 72202>>, <<72243, 72248>>, <<72251, 72254>>,
       <<72263, 72263>>, <<72273, 72278>>, <<72281, 72283>>, <<72330, 72342>>, <<72344, 72345>>, <<72752, 72758>>,
       <<72760, 72765>>, <<72767, 72767>>, <<72850, 72871>>, <<72874, 72880>>, <<72882, 72883>>, <<72885, 72886>>,
       <<73009, 73014>>, <<73018, 73018>>, <<73020, 73021>>, <<73023, 73029>>, <<73031, 73031>>, <<73104, 73105>>,
       <<73109, 73109>>, <<73111, 73111>>, <<73459, 73460>>, <<78896, 78904>>, <<92912, 92916>>, <<92976, 92982>>,
       <<92992, 92995>>, <<94031, 94031>>, <<94095, 94111>>, <<94176, 94177>>, <<94179, 94180>>, <<110576, 110579>>,
       <<110581, 110587>>, <<110589, 110590>>, <<113821, 113822>>, <<113824, 113827>>, <<118528, 118573>>, <<118576, 118598>>,
       <<119143, 119145>>, <<119155, 119170>>, <<119173, 119179>>, <<119210, 119213>>, <<119362, 119364>>, <<121344, 121398>>,
       <<121403, 121452>>, <<121461, 121461>>, <<121476, 121476>>, <<121499, 121503>>, <<121505, 121519>>, <<122880, 122886>>,
       <<122888, 122904>>, <<122907, 122913>>, <<122915, 122916>>, <<122918, 122922>>, <<123184, 123197>>, <<123566, 123566>>,
       <<123628, 123631>>, <<125136, 125142>>, <<125252, 125259>>, <<127995, 127999>>, <<917505, 917505>>, <<917536, 917631>>,
       <<917760, 917999>> >>
\* str.lower(): every character in its lower-case form.  The capital I with
\* dot above (304) becomes i and a combining dot (105, 775); the capital sigma
\* (931) becomes the final sigma (962) when, case-ignorable characters skipped,
\* a cased character stands before it and none after it, else the sigma (963).
lower(s) ==
    LET IsCased(c) == RangeIndex(Cased, c, 1, Len(Cased)) # 0
        Ignorable(c) == RangeIndex(CaseIgnorable, c, 1, Len(CaseIgnorable)) # 0
        FinalSigma(i) ==
            LET before == { j \in 1..(i - 1) : ~Ignorable(s[j]) }
                after == { j \in (i + 1)..Len(s) : ~Ignorable(s[j]) }
            IN /\ before # {}
               /\ IsCased(s[CHOOSE j \in before : \A k \in before : k <= j])
               /\ after # {} => ~IsCased(s[CHOOSE j \in after : \A k \in after : j <= k])
        At(i) == CASE s[i] = 304 -> <<105, 775>>
                   [] s[i] = 931 -> <<IF FinalSigma(i) THEN 962 ELSE 963>>
                   [] OTHER -> <<LowerChar(s[i])>>
        RECURSIVE Between(_, _)
        Between(i, j) ==
            IF i > j THEN <<>>
            ELSE IF i = j THEN At(i)
            ELSE CHOOSE result \in { Between(i, mid) \o Between(mid + 1, j)
                                     : mid \in {(i + j) \div 2} } : TRUE
    IN Between(1, Len(s))

\* str.title() of a keyword of the gazetteer, whose letters are ASCII: the
\* first letter of every run of letters in upper case, the others in lower case.
title(s) ==
    LET Letter(c) == c \in 65..90 \/ c \in 97..122
    IN [i \in 1..Len(s) |->
           IF i > 1 /\ Letter(s[i - 1]) THEN LowerChar(s[i])
           ELSE IF s[i] \in 97..122 THEN s[i] - 32 ELSE s[i]]

\* k occurs in s at position i
StartsAt(s, i, k) == i >= 1 /\ i + Len(k) - 1 <= Len(s) /\ SubSeq(s, i, i + Len(k) - 1) = k

\* Python's `k in s`
Contains(s, k) == \E i \in 1..(Len(s) - Len(k) + 1) : StartsAt(s, i, k)

\* The positions of s, and the one after its last, where no digit stands, in
\* increasing order.
NonDigits(s) ==
    SelectSeq([j \in 1..(Len(s) + 1) |-> j], LAMBDA j : j > Len(s) \/ ~IsDigit(s[j]))

\* The position after the longest run of digits (\d*) starting at i: the
\* first of `stops`, the positions where no digit stands, from i on.
DigitRunEnd(stops, i) ==
    stops[CHOOSE x \in 1..Len(stops) : stops[x] >= i /\ (x = 1 \/ stops[x - 1] < i)]

\* The position after the longest run of white space (\s*) starting at i.
SpaceRunEnd(s, i) ==
    CHOOSE j \in i..(Len(s) + 1) :
        /\ j > Len(s) \/ ~IsSpace(s[j])
        /\ \A k \in i..(j - 1) : IsSpace(s[k])

\* str.strip(): without the white space at either end
strip(s) ==
    CHOOSE result \in
        { IF first > Len(s) THEN <<>>
          ELSE SubSeq(s, first, CHOOSE j \in first..Len(s) :
                                    /\ ~IsSpace(s[j])
                                    /\ \A k \in (j + 1)..Len(s) : IsSpace(s[k]))
          : first \in {SpaceRunEnd(s, 1)} } : TRUE

\* \b at position i (between characters i-1 and i)
Boundary(s, i) ==
    LET WordAt(j) == j >= 1 /\ j <= Len(s) /\ IsWord(s[j])
    IN WordAt(i - 1) # WordAt(i)

\* re.search: the leftmost of the positions where a match starts, 0 when
\* there is none.
Search(starts) ==
    CHOOSE result \in
        { IF found = {} THEN 0 ELSE CHOOSE i \in found : \A j \in found : i <= j
          : found \in {starts} } : TRUE

\* The digits of a number, the highest first.  A number is the sequence of its
\* decimal digits, the lowest first and the highest not 0, <<>> being zero: a
\* Python int has any size, and float() reads numerals of any length.
Numeral(a) ==
    LET RECURSIVE Between(_, _)
        \* the digits from place j down to place i
        Between(i, j) ==
            IF i > j THEN ""
            ELSE IF i = j THEN SubSeq("0123456789", a[i] + 1, a[i] + 1)
            ELSE CHOOSE result \in { Between(mid + 1, j) \o Between(i, mid)
                                     : mid \in {(i + j) \div 2} } : TRUE
    IN Between(1, Len(a))

\* int(s) of a string of decimal digits of any script.  The call returns the
\* int, recorded by its decimal numeral ("7" for 007), and its outcome is
\* <<numeral>>; or, the string being longer than the 4300 digits that
\* sys.get_int_max_str_digits() allows, it raises ValueError and its outcome is
\* the type and the message of the exception.
int(s) ==
    LET a == [i \in 1..Len(s) |-> DigitValue(s[Len(s) + 1 - i])]
        top == CHOOSE i \in 0..Len(s) : /\ i = 0 \/ a[i] # 0
                                        /\ \A j \in (i + 1)..Len(s) : a[j] = 0
    IN IF Len(s) > 4300
       THEN << "ValueError",
               "Exceeds the limit (4300 digits) for integer string conversion: value has "
                  \o ToString(Len(s))
                  \o " digits; use sys.set_int_max_str_digits() to increase the limit" >>
       ELSE CHOOSE result \in
                { <<IF digits = <<>> THEN "0" ELSE Numeral(digits)>>
                  : digits \in {SubSeq(a, 1, top)} } : TRUE

\* Arithmetic on numbers, for float().
\* a + b: a carry enters a place when the nearest place below it that does
\* not hold 9 overflows
Plus(a, b) ==
    LET n == (IF Len(a) > Len(b) THEN Len(a) ELSE Len(b)) + 1
        Sum(i) == (IF i <= Len(a) THEN a[i] ELSE 0) + (IF i <= Len(b) THEN b[i] ELSE 0)
        Carry(i) ==
            IF i > 1 /\ Sum(i - CHOOSE d \in 1..(i - 1) :
                                    /\ d = i - 1 \/ Sum(i - d) # 9
                                    /\ \A e \in 1..(d - 1) : Sum(i - e) = 9) > 9
            THEN 1 ELSE 0
        Digit(i) == (Sum(i) + Carry(i)) % 10
    IN IF a = <<>> THEN b
       ELSE IF b = <<>> THEN a
       ELSE SubSeq([i \in 1..n |-> Digit(i)], 1, IF Digit(n) = 0 THEN n - 1 ELSE n)
\* a * m, for 1 <= m < 2^27: the halves of a times m, added
Times(a, m) ==
    LET \* the number v < 2^31
        Digits(v) == SubSeq([i \in 1..10 |-> (v \div 10^(i - 1)) % 10], 1,
                            Cardinality({ k \in 0..9 : 10^k <= v }))
        RECURSIVE Part(_, _)
        \* the places i to j of a, as a number, times m
        Part(i, j) ==
            IF i = j THEN Digits(a[i] * m)
            ELSE CHOOSE result \in
                     { CHOOSE sum \in
                           { Plus(low, IF high = <<>> THEN <<>>
                                       ELSE [k \in 1..(mid - i + 1) |-> 0] \o high)
                             : low \in {Part(i, mid)}, high \in {Part(mid + 1, j)} } : TRUE
                       : mid \in {(i + j) \div 2} } : TRUE
    IN IF a = <<>> THEN <<>> ELSE Part(1, Len(a))
\* a * m^n, for m of 2, 5 and 10, by the largest power of m below 2^27 at a
\* time: 2^26, 5^11 and 10^8
RECURSIVE Power(_, _, _)
Power(a, m, n) ==
    LET most == IF m = 2 THEN 26 ELSE IF m = 5 THEN 11 ELSE 8
    IN IF n = 0 \/ a = <<>> THEN a
       ELSE IF n > most
       THEN CHOOSE result \in { Power(b, m, n - most) : b \in {Times(a, m^most)} } : TRUE
       ELSE Times(a, m^n)
\* a < b: a is shorter or, of the same length, smaller at the highest place
\* where they differ
Less(a, b) ==
    IF Len(a) # Len(b) THEN Len(a) < Len(b)
    ELSE \E i \in 1..Len(a) : a[i] < b[i] /\ \A j \in (i + 1)..Len(a) : a[j] = b[j]
\* a - b, for a >= b: a borrow enters a place when, at the nearest place
\* below it where a and b differ, a holds less
Minus(a, b) ==
    LET n == Len(a)
        Of(i) == IF i <= Len(b) THEN b[i] ELSE 0
        Borrow(i) ==
            IF i > 1 /\ (LET d == CHOOSE d \in 1..(i - 1) :
                                      /\ d = i - 1 \/ a[i - d] # Of(i - d)
                                      /\ \A e \in 1..(d - 1) : a[i - e] = Of(i - e)
                         IN a[i - d] < Of(i - d))
            THEN 1 ELSE 0
        Digit(i) == (a[i] - Of(i) - Borrow(i)) % 10
    IN SubSeq([i \in 1..n |-> Digit(i)], 1,
              CHOOSE i \in 0..n : /\ i = 0 \/ Digit(i) # 0
                                  /\ \A j \in (i + 1)..n : Digit(j) = 0)
\* Long division of a by b, for b > 0 and a < b * 10^(j + 1): the j + 1 digits
\* of the quotient, the lowest first, and the rest.
Divide(a, b, j) ==
    LET \* b * c * 10^k, for c from 1 to 10
        Shift(c, k) == [i \in 1..k |-> 0] \o Times(b, c)
        \* c times b * 10^k is no more than r
        Fits(c, r, k) == \E part \in {Shift(c, k)} : ~Less(r, part)
        RECURSIVE From(_, _, _)
        \* the digits of the places above k being found and r left of a, the
        \* digit of place k is the most that fits
        From(r, k, digits) ==
            IF k < 0 THEN [digits |-> digits, rest |-> r]
            ELSE CHOOSE result \in
                     { CHOOSE below \in
                           { From(rest, k - 1, <<c>> \o digits)
                             : rest \in {IF c = 0 THEN r
                                         ELSE CHOOSE left \in { Minus(r, part)
                                                                : part \in {Shift(c, k)} } : TRUE} } : TRUE
                       : c \in {CHOOSE c \in 0..9 : /\ c = 0 \/ Fits(c, r, k)
                                                    /\ ~Fits(c + 1, r, k)} } : TRUE
    IN From(a, j, <<>>)

\* float(s) of decimal digits with an optional point and fraction: the double
\* nearest to the numeral, a tie going to the even mantissa, and inf beyond
\* the largest double.  A float is recorded by the decimal numerals of its
\* whole part and of its fraction without trailing zeros, which a double has
\* exactly: 10, 10. and 10.0 are the same float, as are two numerals that
\* round to the same double.
float(s) ==
    LET point == DigitRunEnd(NonDigits(s), 1)
        Top(a) == CHOOSE i \in 0..Len(a) : /\ i = 0 \/ a[i] # 0
                                           /\ \A j \in (i + 1)..Len(a) : a[j] = 0
        \* mantissa * 2^e, a double below inf, written out.  For a negative
        \* e it is mantissa * 5^(-e) / 10^(-e).
        Written(mantissa, e) ==
            IF e >= 0
            THEN CHOOSE result \in { [whole |-> Numeral(whole), fraction |-> ""]
                                     : whole \in {Power(mantissa, 2, e)} } : TRUE
            ELSE CHOOSE result \in
                     { LET low == CHOOSE i \in 1..(1 - e) :
                                     /\ i = 1 - e \/ shifted[i] # 0
                                     /\ \A j \in 1..(i - 1) : shifted[j] = 0
                       IN [whole |-> IF Len(shifted) <= -e THEN "0"
                                     ELSE Numeral(SubSeq(shifted, 1 - e, Len(shifted))),
                           fraction |-> Numeral(SubSeq(shifted, low, -e))]
                       : shifted \in {LET m == Power(mantissa, 5, -e)
                                      IN m \o [i \in 1..(-e - Len(m)) |-> 0]} } : TRUE
        \* dividend / divisor is numerator / 10^places / 2^e and lies from
        \* 2^52 to 2^53, or below and e is -1074: the mantissa is the
        \* quotient rounded to a whole number, a tie going to the even one.
        Rounded(dividend, divisor, e) ==
            CHOOSE result \in
                { CHOOSE value \in
                      { IF e > 971 \/ (e = 971 /\ mantissa = Power(<<1>>, 2, 53))
                        THEN [whole |-> "inf", fraction |-> ""]
                        ELSE Written(mantissa, e)
                        : mantissa \in
                            {LET floor == SubSeq(quotient.digits, 1, Top(quotient.digits))
                             IN IF \E twice \in {Times(quotient.rest, 2)} :
                                      \/ Less(divisor, twice)
                                      \/ twice = divisor /\ floor # <<>> /\ floor[1] % 2 = 1
                                THEN Plus(floor, <<1>>) ELSE floor} } : TRUE
                  : quotient \in {Divide(dividend, divisor, 15)} } : TRUE
        \* numerator / one is the numeral, least is one * 2^52, and e is such
        \* that 2^52 <= numerator / one / 2^e < 2^53, or -1074
        Reaches(numerator, least, k) ==
            \E v \in {Power(numerator, 2, k)} : ~Less(v, least)
        Within(numerator, least, k) ==
            \E v \in {Power(least, 2, k)} : Less(numerator, v)
        Exponent(numerator, least) ==
            IF Less(numerator, least)
            THEN -(CHOOSE k \in 0..1074 : /\ k = 1074 \/ Reaches(numerator, least, k)
                                          /\ k = 0 \/ ~Reaches(numerator, least, k - 1))
            ELSE CHOOSE k \in 0..(4 * Len(numerator)) :
                    /\ Within(numerator, least, k + 1)
                    /\ k = 0 \/ ~Within(numerator, least, k)
        Scaled(numerator, one, e) ==
            CHOOSE result \in
                { Rounded(dividend, divisor, e)
                  : dividend \in {IF e < 0 THEN Power(numerator, 2, -e) ELSE numerator},
                    divisor \in {IF e < 0 THEN one ELSE Power(one, 2, e)} } : TRUE
    IN CHOOSE result \in
           { IF numerator = <<>> THEN [whole |-> "0", fraction |-> ""]
             ELSE CHOOSE value \in
                      { CHOOSE double \in { Scaled(numerator, one, e)
                                            : e \in {Exponent(numerator, least)} } : TRUE
                        : least \in {Power(one, 2, 52)} } : TRUE
             : numerator \in
                 {CHOOSE number \in
                      { LET a == [i \in 1..Len(figures) |->
                                      DigitValue(figures[Len(figures) + 1 - i])]
                        IN SubSeq(a, 1, Top(a))
                        : figures \in {SelectSeq(s, LAMBDA c : IsDigit(c))} } : TRUE},
               \* the numeral is numerator / 10^places
               one \in {Power(<<1>>, 10, IF point <= Len(s) THEN Len(s) - point ELSE 0)} } : TRUE

(***************************************************************************)
(* EntityExtractor                                                         *)
(*                                                                         *)
(* The statistical recogniser (spaCy) is outside the repository: what it   *)
(* reports for a text is an input, the list of the entity texts labelled   *)
(* GPE or LOC, in text order.                                              *)
(***************************************************************************)
location_keywords ==
    << Codes("mumbai"), Codes("delhi"), Codes("bangalore"), Codes("pune"),
       Codes("chennai"), Codes("kolkata"), Codes("hyderabad"), Codes("ahmedabad"),
       Codes("gurgaon"), Codes("noida"), Codes("thane"), Codes("navi mumbai"),
       Codes("andheri"), Codes("powai"), Codes("bandra"), Codes("worli"),
       Codes("kurla"), Codes("ghatkopar"), Codes("khargar"), Codes("vashi"),
       Codes("panvel"), Codes("whitefield"), Codes("koramangala"),
       Codes("indiranagar"), Codes("malleswaram"), Codes("mg road"),
       Codes("connaught place"), Codes("saket"), Codes("vasant kunj"),
       Codes("dwarka"), Codes("rohini"), Codes("ghaziabad"), Codes("faridabad"),
       Codes("kashmir"), Codes("tier") >>

\* Python dicts keep insertion order: a table is the sequence of its items.
time_keywords ==
    << <<Codes("morning"), Codes("morning")>>, <<Codes("afternoon"), Codes("afternoon")>>,
       <<Codes("evening"), Codes("evening")>>, <<Codes("night"), Codes("night")>>,
       <<Codes("kal"), Codes("tomorrow")>>, <<Codes("aaj"), Codes("today")>>,
       <<Codes("parso"), Codes("day_after_tomorrow")>> >>

payment_keywords ==
    << <<Codes("cod"), Codes("COD")>>, <<Codes("cash on delivery"), Codes("COD")>>,
       <<Codes("cash"), Codes("COD")>>, <<Codes("prepaid"), Codes("prepaid")>>,
       <<Codes("online"), Codes("prepaid")>>, <<Codes("upi"), Codes("prepaid")>>,
       <<Codes("card"), Codes("prepaid")>> >>

\* The value of the first item of a table whose keyword occurs in the text.
FirstKeyword(table, text_lower) ==
    IF \E i \in 1..Len(table) : Contains(text_lower, table[i][1])
    THEN LET i == CHOOSE i \in 1..Len(table) :
                    /\ Contains(text_lower, table[i][1])
                    /\ \A j \in 1..(i - 1) : ~Contains(text_lower, table[j][1])
         IN Some(table[i][2])
    ELSE None

\* list(dict.fromkeys(locations)): the first occurrence of every entry, in order.
RECURSIVE Deduplicate(_)
Deduplicate(l) ==
    IF l = <<>> THEN <<>>
    ELSE CHOOSE result \in
             { IF \E i \in 1..Len(init) : init[i] = l[Len(l)]
               THEN init ELSE Append(init, l[Len(l)])
               : init \in {Deduplicate(SubSeq(l, 1, Len(l) - 1))} } : TRUE

\* The deduplicated candidate list of extract_locations: the entity texts of
\* the recogniser, then the title-cased keywords occurring in the lowered
\* text, in the order of the list.
location_candidates(text, ents) ==
    LET Titles(found) == [i \in 1..Len(found) |-> title(found[i])]
    IN CHOOSE result \in
           { CHOOSE unique \in
                 { Deduplicate(locations)
                   : locations \in
                       {CHOOSE all \in
                            { ents \o Titles(found)
                              : found \in {SelectSeq(location_keywords,
                                                     LAMBDA k : Contains(text_lower, k))} } : TRUE}
                  } : TRUE
             : text_lower \in {lower(text)} } : TRUE

\* Two or more candidates, with the else branch taking them in reverse.
two_locations_reversed(text_lower, locations) ==
    IF Contains(text_lower, Codes(" se ")) \/ Contains(text_lower, Codes(" from "))
    THEN [pickup_location |-> Some(locations[1]), drop_location |-> Some(locations[2])]
    ELSE IF Contains(text_lower, Codes(" to "))
    THEN [pickup_location |-> Some(locations[1]), drop_location |-> Some(locations[2])]
    ELSE [pickup_location |-> Some(locations[2]), drop_location |-> Some(locations[1])]

\* Two or more candidates (entity_extractor.py:85-98): every branch takes the
\* first as pickup and the second as drop.
two_locations(text_lower, locations) ==
    IF Contains(text_lower, Codes(" se ")) \/ Contains(text_lower, Codes(" from "))
    THEN [pickup_location |-> Some(locations[1]), drop_location |-> Some(locations[2])]
    ELSE IF Contains(text_lower, Codes(" to "))
    THEN [pickup_location |-> Some(locations[1]), drop_location |-> Some(locations[2])]
    ELSE [pickup_location |-> Some(locations[1]), drop_location |-> Some(locations[2])]

\* Exactly one candidate (entity_extractor.py:99-108): the cues are tested as
\* substrings of the lowered text.
one_location(text_lower, locations) ==
    IF Contains(text_lower, Codes("pickup")) \/ Contains(text_lower, Codes("se"))
    THEN [pickup_location |-> Some(locations[1]), drop_location |-> None]
    ELSE IF Contains(text_lower, Codes("drop")) \/ Contains(text_lower, Codes("delivery"))
    THEN [pickup_location |-> None, drop_location |-> Some(locations[1])]
    ELSE [pickup_location |-> None, drop_location |-> None]

\* extract_locations(text), given what the recogniser reports for the text:
\* the dict of pickup_location and drop_location.
extract_locations(text, ents) ==
    CHOOSE result \in
        { IF Len(locations) >= 2 THEN two_locations(text_lower, locations)
          ELSE IF Len(locations) = 1 THEN one_location(text_lower, locations)
          ELSE [pickup_location |-> None, drop_location |-> None]
          : text_lower \in {lower(text)},
            locations \in {location_candidates(text, ents)} } : TRUE

\* The position after a match of (\d+\.?\d*)\s*<unit> starting at i, else 0.
WeightEnd(s, stops, i, unit) ==
    IF i <= Len(s) /\ IsDigit(s[i])
    THEN CHOOSE result \in
             { IF StartsAt(s, c, unit) THEN c + Len(unit) ELSE 0
               : c \in {CHOOSE space \in
                            { SpaceRunEnd(s, IF StartsAt(s, a, Codes("."))
                                             THEN DigitRunEnd(stops, a + 1) ELSE a)
                              : a \in {DigitRunEnd(stops, i)} } : TRUE} } : TRUE
    ELSE 0

\* extract_weight(text): the patterns, here the units they end with, are
\* tried in the order of the list, from the k-th on.
RECURSIVE WeightFrom(_, _)
WeightFrom(text_lower, k) ==
    LET patterns == <<Codes("kg"), Codes("kgs"), Codes("kilogram"), Codes("kilos")>>
        \* group(1) of a match starting at i: the number
        Group(stops, i) ==
            CHOOSE number \in
                { SubSeq(text_lower, i,
                         (IF StartsAt(text_lower, a, Codes("."))
                          THEN DigitRunEnd(stops, a + 1) ELSE a) - 1)
                  : a \in {DigitRunEnd(stops, i)} } : TRUE
    IN
    IF k > Len(patterns) THEN None
    ELSE CHOOSE result \in
             { CHOOSE found \in
                   { IF i # 0
                     THEN CHOOSE weight \in { Some(float(number))
                                              : number \in {Group(stops, i)} } : TRUE
                     ELSE WeightFrom(text_lower, k + 1)
                     : i \in {Search({ j \in 1..Len(text_lower) :
                                          WeightEnd(text_lower, stops, j, patterns[k]) # 0 })}
                   } : TRUE
               : stops \in {NonDigits(text_lower)} } : TRUE
extract_weight(text) ==
    CHOOSE result \in { WeightFrom(text_lower, 1) : text_lower \in {lower(text)} } : TRUE

\* The position after a match of (\d+)\s*<unit> starting at i, else 0.
PackagesEnd(s, stops, i, unit) ==
    IF i <= Len(s) /\ IsDigit(s[i])
    THEN CHOOSE result \in
             { IF StartsAt(s, c, unit) THEN c + Len(unit) ELSE 0
               : c \in {SpaceRunEnd(s, DigitRunEnd(stops, i))} } : TRUE
    ELSE 0

\* extract_packages(text): the patterns, here the units they end with, are
\* tried in the order of the list, from the k-th on.  The outcome is None,
\* Some(the count), or the exception that int() raised and that leaves
\* extract_packages: <<type, message>>.
RECURSIVE PackagesFrom(_, _)
PackagesFrom(text_lower, k) ==
    LET patterns == <<Codes("box"), Codes("package"), Codes("parcel"), Codes("item")>>
    IN
    IF k > Len(patterns) THEN None
    ELSE CHOOSE result \in
             { CHOOSE found \in
                   { IF i # 0
                     THEN \* int(match.group(1)), group(1) being the number
                          CHOOSE packages \in
                              { IF Len(count) = 2 THEN count ELSE Some(count[1])
                                : count \in {int(SubSeq(text_lower, i,
                                                        DigitRunEnd(stops, i) - 1))} } : TRUE
                     ELSE PackagesFrom(text_lower, k + 1)
                     : i \in {Search({ j \in 1..Len(text_lower) :
                                          PackagesEnd(text_lower, stops, j, patterns[k]) # 0 })}
                   } : TRUE
               : stops \in {NonDigits(text_lower)} } : TRUE
extract_packages(text) ==
    CHOOSE result \in { PackagesFrom(text_lower, 1) : text_lower \in {lower(text)} } : TRUE

\* The time patterns in the order of the list; ClockEnd(p, s, i) is the
\* position after a match of pattern p starting at i, else 0.  \d{1,2} is one
\* or two digits not followed by a third (what follows it in each pattern is
\* no digit).  In the second pattern \s* and (am|pm)? are greedy: the white
\* space after the minutes belongs to the match even when no am or pm
\* follows it.
time_patterns == <<"(\\d{1,2})\\s*(am|pm)", "(\\d{1,2}):(\\d{2})\\s*(am|pm)?", "(\\d{1,2})\\s*baje">>
ClockEnd(p, s, stops, i) ==
    LET Meridiem(j) ==
            IF StartsAt(s, j, Codes("am")) \/ StartsAt(s, j, Codes("pm")) THEN j + 2 ELSE 0
        \* the position after \s* from j and what the pattern has after it
        After(j) ==
            CHOOSE result \in
                { CASE p = time_patterns[1] -> Meridiem(c)
                    [] p = time_patterns[2] -> IF Meridiem(c) # 0 THEN Meridiem(c) ELSE c
                    [] p = time_patterns[3] ->
                          IF StartsAt(s, c, Codes("baje")) THEN c + 4 ELSE 0
                  : c \in {SpaceRunEnd(s, j)} } : TRUE
    IN CHOOSE result \in
           { IF ~(i >= 1 /\ run - i \in {1, 2}) THEN 0
             ELSE IF p # time_patterns[2] THEN After(run)
             ELSE IF StartsAt(s, run, Codes(":")) /\ DigitRunEnd(stops, run + 1) >= run + 3
             THEN After(run + 3)
             ELSE 0
             : run \in {DigitRunEnd(stops, i)} } : TRUE

\* match.group(0) of the first pattern, in the order of the list, that matches.
RECURSIVE ClockFrom(_, _)
ClockFrom(text_lower, k) ==
    IF k > Len(time_patterns) THEN None
    ELSE CHOOSE result \in
             { CHOOSE found \in
                   { IF i # 0
                     THEN Some(SubSeq(text_lower, i,
                                      ClockEnd(time_patterns[k], text_lower, stops, i) - 1))
                     ELSE ClockFrom(text_lower, k + 1)
                     : i \in {Search({ j \in 1..Len(text_lower) :
                                          ClockEnd(time_patterns[k], text_lower, stops, j) # 0 })}
                   } : TRUE
               : stops \in {NonDigits(text_lower)} } : TRUE

\* extract_time with the clock patterns tried before the keyword table.
extract_time_clock_first(text) ==
    CHOOSE result \in
        { IF ClockFrom(text_lower, 1) # None THEN ClockFrom(text_lower, 1)
          ELSE FirstKeyword(time_keywords, text_lower)
          : text_lower \in {lower(text)} } : TRUE

\* extract_time(text): the keyword table first, then the clock patterns.
extract_time(text) ==
    CHOOSE result \in
        { IF FirstKeyword(time_keywords, text_lower) # None
          THEN FirstKeyword(time_keywords, text_lower)
          ELSE ClockFrom(text_lower, 1)
          : text_lower \in {lower(text)} } : TRUE

fragile_keywords ==
    <<Codes("fragile"), Codes("breakable"), Codes("handle carefully"), Codes("delicate")>>

\* extract_fragile(text)
extract_fragile(text) ==
    \E text_lower \in {lower(text)} :
        \E k \in 1..Len(fragile_keywords) : Contains(text_lower, fragile_keywords[k])

\* A variant that consults the prepaid keywords before the COD keywords.
extract_payment_mode_prepaid_first(text) ==
    CHOOSE result \in
        { FirstKeyword(SubSeq(payment_keywords, 4, 7) \o SubSeq(payment_keywords, 1, 3),
                       text_lower)
          : text_lower \in {lower(text)} } : TRUE

\* extract_payment_mode(text)
extract_payment_mode(text) ==
    CHOOSE result \in
        { FirstKeyword(payment_keywords, text_lower) : text_lower \in {lower(text)} } : TRUE

\* The position after [6-9]\d{9}\b starting at i, else 0.
MobileEnd(s, i) ==
    IF /\ i >= 1 /\ i + 9 <= Len(s)
       /\ s[i] \in 54..57
       /\ \A j \in 1..9 : IsDigit(s[i + j])
       /\ Boundary(s, i + 10)
    THEN i + 10 ELSE 0

\* The position after a match of \+91[\s-]?[6-9]\d{9}\b starting at i, else 0.
PrefixedPhoneEnd(s, i) ==
    IF StartsAt(s, i, Codes("+91"))
    THEN IF i + 3 <= Len(s) /\ (IsSpace(s[i + 3]) \/ s[i + 3] = 45)
         THEN MobileEnd(s, i + 4)
         ELSE MobileEnd(s, i + 3)
    ELSE 0

\* extract_phone_number with the first digit of the number unrestricted.
extract_phone_number_any_digit(text) ==
    LET Ten(i) == IF /\ Boundary(text, i) /\ i + 9 <= Len(text)
                     /\ \A j \in 0..9 : IsDigit(text[i + j])
                     /\ Boundary(text, i + 10) THEN i + 10 ELSE 0
        p == Search({ j \in 1..Len(text) : Ten(j) # 0 })
    IN IF p # 0 THEN Some(SubSeq(text, p, p + 9)) ELSE None

\* extract_phone_number(text): on the text as given, not lowered.  A match
\* of \b[6-9]\d{9}\b starts at a word boundary; failing one, a match of the
\* pattern with the country code is looked for.
extract_phone_number(text) ==
    CHOOSE result \in
        { IF p # 0 THEN Some(SubSeq(text, p, p + 9))
          ELSE IF q # 0
          THEN CHOOSE number \in { Some(SubSeq(text, q, end - 1))
                                   : end \in {PrefixedPhoneEnd(text, q)} } : TRUE
          ELSE None
          : p \in {Search({ j \in 1..Len(text) : Boundary(text, j) /\ MobileEnd(text, j) # 0 })},
            q \in {Search({ j \in 1..Len(text) : PrefixedPhoneEnd(text, j) # 0 })} } : TRUE

\* extract(text), given what the recogniser reports for the text.  The call
\* returns the dict of the eight entities; or int() has raised in
\* extract_packages and the exception leaves extract: its outcome is then the
\* type and the message of that exception.
extract(text, ents) ==
    CHOOSE result \in
        { IF Len(packages) = 2
          THEN [raises |-> packages[1], message |-> packages[2]]
          ELSE [ pickup_location |-> locations.pickup_location,
                 drop_location |-> locations.drop_location,
                 weight_kg |-> extract_weight(text),
                 packages |-> packages,
                 pickup_time |-> extract_time(text),
                 fragile |-> extract_fragile(text),
                 payment_mode |-> extract_payment_mode(text),
                 phone_number |-> extract_phone_number(text) ]
          : locations \in {extract_locations(text, ents)},
            packages \in {extract_packages(text)} } : TRUE

\* ---- the texts handed to extract ----
\* A location text is a lead, a phrase naming places and a tail; `places` are
\* the places of the phrase as they are written, in text order.  The phrases
\* hold every combination of the connectors " se ", " from " and " to ".
LocationCases ==
    LET Phrase(t, places) ==
            [t |-> Codes(t), places |-> [i \in 1..Len(places) |-> Codes(places[i])]]
        Phrases ==
            { Phrase("", <<>>),
              Phrase("Andheri se Powai", <<"Andheri", "Powai">>),
              Phrase("Powai se Andheri", <<"Powai", "Andheri">>),
              Phrase("Mumbai to Pune", <<"Mumbai", "Pune">>),
              Phrase("Pune to Mumbai", <<"Pune", "Mumbai">>),
              Phrase("Bandra from Kurla", <<"Bandra", "Kurla">>),
              Phrase("Noida Delhi", <<"Noida", "Delhi">>),
              Phrase("Thane se Vashi to Panvel", <<"Thane", "Vashi", "Panvel">>),
              Phrase("Saket from Dwarka to Rohini", <<"Saket", "Dwarka", "Rohini">>),
              Phrase("Worli se nahi from Kurla", <<"Worli", "Kurla">>),
              Phrase("Delhi se ya from Noida to Pune", <<"Delhi", "Noida", "Pune">>),
              Phrase("DELHI TO Agra", <<"DELHI", "Agra">>),
              Phrase("Delhi", <<"Delhi">>),
              Phrase("andheri", <<"andheri">>) }
    IN { [t |-> Codes(l) \o p.t \o Codes(e), places |-> p.places] :
            l \in {"", "Pickup karna hai ", "Drop at ", "delivery please ", "Saman bhejna hai "},
            p \in Phrases,
            e \in {"", ", 2 boxes hai", " kal 6 baje"} }

\* Numbers and units: the blank before the unit may be a no-break space (160)
\* or a thin space (8201), the digits may be Arabic-Indic (1632-1641) or
\* fullwidth (65296-65305), the k may be the Kelvin sign (8490), and a numeral
\* may be longer than a double holds.
QuantityTexts ==
    { Codes(t) : t \in
        { "10kg", "10.5 kilograms", "5 kilos aur 10 kgs", "10. KG", "weight 007.50 kg",
          "kg 5", "2 boxes", "3 items 4 parcel", "12 Packages fragile", "box 2",
          "1.2.3kg", "handle carefully 20 kilos", "ten kg", "5\fkg", "2\fboxes",
          "0 kg 0 boxes", "2 kilogram then 3kg", "0.10000000000000000001 kg",
          "9007199254740993 kg", "0.1 kg", "123456789012345678901234567890 items",
          "4.35kgs", "1e5 kg" } }
    \cup { Codes("5") \o <<160>> \o Codes("kg"),
           Codes("2") \o <<8201, 160>> \o Codes("boxes"),
           <<1633, 1632>> \o Codes(" kg ") \o <<65299>> \o Codes(" parcel"),
           <<1637, 46, 1637>> \o Codes("kilos"),
           Codes("7 ") \o <<8490>> \o Codes("G"),
           Codes("5") \o <<233>> \o Codes(" kg 3 b") \o <<246>> \o Codes("x"),
           \* a package count of 4301 digits, one more than int() converts
           [i \in 1..4301 |-> 49] \o Codes(" boxes"),
           Codes("Delhi 5 kg ") \o [i \in 1..4301 |-> 49] \o Codes(" boxes"),
           [i \in 1..40 |-> 48] \o Codes("7 parcel") }

\* Times: the same, and a capital I with dot above (304), which lower() turns
\* into two characters.
TimeTexts ==
    { Codes(t) : t \in
        { "kal 6 baje", "6 PM", "evening 6 baje", "4:30 baje", "4:30 pm", "4:30 ya 6 pm",
          "night morning 5pm", "123pm", "aaj nahi parso", "12:5", "9:15  tak", "7 baje 8 am",
          "10:45am", "kolkata 11 am", "afternoon", "6 p m", "6\fpm", "12:30\f",
          "KAL 6 PM", "Parso 4:30", "6 Baje", "123:456" } }
    \cup { Codes("6") \o <<160>> \o Codes("pm"),
           Codes("6") \o <<133>> \o Codes("baje"),
           <<1638>> \o Codes(" PM"),
           <<65297, 1632>> \o Codes(":") \o <<1636, 1637, 160>> \o Codes("AM"),
           Codes("N") \o <<304>> \o Codes("GHT 7 baje"),
           Codes("4:30") \o <<160, 8232>>,
           Codes("mornin") \o <<609>> \o Codes(" 8am") }

\* A prefix, a run of digits and a suffix: an e with acute accent (233) is a
\* word character, a no-break space (160) is white space, and the digits
\* after the first may be of any script.
PhoneTexts ==
    { p \o d \o s :
        p \in { Codes(t) : t \in {"", "+91", "+91 ", "+91-", "+91  ", "91", "call ", "x", "+91_"} }
                \cup { <<233>>, Codes("+91") \o <<160>> },
        d \in { Codes(t) : t \in {"9876543210", "1234567890", "987654321", "98765432109",
                                  "6000000000"} }
                \cup { Codes("9") \o <<1640, 1639, 1638, 1637, 1636, 1635, 1634, 1633, 1632>>,
                       <<1641>> \o Codes("876543210") },
        s \in { Codes(t) : t \in {"", " par", "x", "."} } \cup { <<233>> } }

\* Payment words in lower case, with capitals, and with capitals that
\* lower() does not turn into the letters of a keyword: the capital I with
\* dot above (304) and the fullwidth capitals (65315, 65327, 65316).
PaymentTexts ==
    { Codes(t) : t \in
        { "cod", "cash on delivery", "prepaid cash", "upi se", "card ya cod", "paytm",
          "COD", "Cash On Delivery", "Prepaid CASH", "UPI se", "Card ya COD",
          "ONLINE payment", "zip code 5", "Pickup" } }
    \cup { Codes("ONL") \o <<304>> \o Codes("NE"),
           <<65315, 65327, 65316>>,
           Codes("CARD ") \o <<201>> \o Codes(" cOd") }

TextCases ==
    LocationCases \cup
    { [t |-> s, places |-> <<>>] :
        s \in QuantityTexts \cup TimeTexts \cup PhoneTexts \cup PaymentTexts }

\* What the recogniser may report for a text naming `places`: none, some or
\* all of them, in text order.
NerOutputs(places) ==
    {<<>>} \cup { <<places[i]>> : i \in 1..Len(places) }
           \cup { <<places[p[1]], places[p[2]]>> :
                    p \in { q \in (1..Len(places)) \X (1..Len(places)) : q[1] < q[2] } }
           \cup { places }

NoExtract == [called |-> FALSE]

InitText ==
    /\ query_text = <<>> /\ ner = <<>>
    /\ extracted = NoExtract
    /\ normalized = None

\* One call entity_extractor.extract(query_text) on which the recogniser
\* answers (main.py:96, test_pipeline.py:81): `extracted` is the dict it
\* returns, or the exception that leaves it.
Extract ==
    /\ extracted = NoExtract
    /\ extracted' = extract(query_text, ner)
    /\ UNCHANGED <<query_text, ner, normalized>>

\* ---- preprocess_text (intent_classifier.py:33-38) ----
\* re.sub(r'[^\w\s]', ' ', text)
sub_non_word(s) ==
    [i \in 1..Len(s) |-> IF IsWord(s[i]) \/ IsSpace(s[i]) THEN s[i] ELSE 32]

\* str.split(): the maximal runs of characters that are no white space.
split(s) ==
    CHOOSE result \in
        { [k \in 1..Len(starts) |-> SubSeq(s, starts[k], ends[k])]
          : starts \in {SelectSeq([i \in 1..Len(s) |-> i],
                                  LAMBDA i : ~IsSpace(s[i]) /\ (i = 1 \/ IsSpace(s[i - 1])))},
            ends \in {SelectSeq([i \in 1..Len(s) |-> i],
                                LAMBDA i : ~IsSpace(s[i]) /\ (i = Len(s) \/ IsSpace(s[i + 1])))}
        } : TRUE

\* preprocess_text without the last line: white space is left as it is.
preprocess_text_no_collapse(t) == sub_non_word(lower(t))

\* IntentClassifier.preprocess_text(text)
preprocess_text(t) ==
    CHOOSE result \in
        { IF words = <<>> THEN <<>> ELSE Join(<<32>>, words)
          : words \in
              {CHOOSE list \in
                   { <<>> \o split(text)
                     : text \in {CHOOSE clean \in
                                     { <<>> \o sub_non_word(text_lower)
                                       : text_lower \in {lower(t)} } : TRUE} } : TRUE}
        } : TRUE

\* The texts handed to preprocess_text: every string of at most MaxTextLen
\* characters over an alphabet with Q, b, the underscore, 7, blank, tab,
\* comma, exclamation mark, a capital E with acute accent (201), a capital I
\* with dot above (304), a capital sigma (931), a no-break space (160), an
\* Arabic-Indic digit (1637) and a mathematical bold capital A (119808, an
\* upper-case letter with no lower-case form); and the texts of the extractor.
MaxTextLen == 3
PreprocessTexts ==
    LET Alphabet == {81, 98, 95, 55, 32, 9, 44, 33, 201, 304, 931, 160, 1637, 119808}
    IN UNION { [1..n -> Alphabet] : n \in 0..MaxTextLen } \cup { c.t : c \in TextCases }

\* One call classifier.preprocess_text(query_text) (intent_classifier.py:94).
Preprocess ==
    /\ normalized = None
    /\ normalized' = Some(preprocess_text(query_text))
    /\ UNCHANGED <<query_text, ner, extracted>>

(***************************************************************************)
(* IntentClassifier                                                        *)
(*                                                                         *)
(* A fitted vectorizer or model is identified by the dataset it was fitted *)
(* on (the split and the solver are seeded, lines 60 and 29, so the same   *)
(* dataset gives the same parameters).  One writer thread runs train, load *)
(* and save, one call after the other; reader threads run predict.         *)
(***************************************************************************)

\* The number of threads that call predict.
NumReaders == 2
Readers == 1..NumReaders

\* The dataset paths train is called with: two well-formed datasets, one whose
\* rows all carry the same intent, and a path with no file behind it.
DatasetPaths == {"A", "B", "single", "nofile"}

\* pd.read_csv(dataset_path) of line 48 raises when the file is not there.
Readable(d) == d # "nofile"

\* The number of distinct intents in the dataset; LogisticRegression.fit of
\* line 70 raises ValueError on fewer than two classes.
Classes(d) == IF d = "single" THEN 1 ELSE 2

\* The size of the vocabulary TfidfVectorizer.fit_transform (line 65) builds
\* from the dataset; a model fitted on it expects vectors of that width.
Features(d) == IF d = "single" THEN 4 ELSE 3

\* What __init__ (lines 22-30) constructs: a vectorizer and a model not yet fitted.
Unfitted == "unfitted"

\* The model file: not there, not a pickle, or a pickled dict whose entries
\* may be absent.
Absent == "absent"
Missing == [kind |-> "missing", vectorizer |-> Absent, model |-> Absent]
Corrupt == [kind |-> "corrupt", vectorizer |-> Absent, model |-> Absent]
Blob(v, m) == [kind |-> "dict", vectorizer |-> v, model |-> m]

\* f is the file object of save (line 112): not there, open on the file at
\* model_path, or open on a file that has since been removed from that path.
NoLocals == [dataset_path |-> "", data |-> Missing, f |-> "none"]
NoReaderLocals == [text |-> <<>>, text_vec |-> Unfitted, intent |-> Unfitted,
                   confidence |-> Unfitted, after_completed |-> FALSE]

\* The texts handed to predict (test_pipeline.py:59, 65).
PredictTexts == {Codes("Mera order track karo"), Codes("Invoice upload karna hai")}

\* The writer's call `name` and the attributes of the instance when it starts.
Call(name) ==
    [name |-> name, vectorizer |-> vectorizer, model |-> model, is_trained |-> is_trained]

\* intent_classifier.py:21-31 and the module-level construction main.py:24
InitClassifier ==
    /\ vectorizer = Unfitted
    /\ model = Unfitted
    /\ is_trained = FALSE
    /\ file = Missing
    /\ wpc = "idle"
    /\ wlocal = NoLocals
    /\ wresult = "none"
    /\ wcall = Call("__init__")
    /\ rpc = [r \in Readers |-> "idle"]
    /\ rlocal = [r \in Readers |-> NoReaderLocals]
    /\ rresult = [r \in Readers |-> "none"]
    /\ completed = FALSE
    /\ opc = "idle"

\* The writer's call ends by raising: nothing else changes.
Raise ==
    /\ wpc' = "idle"
    /\ wresult' = "error"
    /\ wlocal' = NoLocals

\* ---- train (lines 40-87) ----

\* the call train(dataset_path)
StartTrain ==
    /\ wpc = "idle"
    /\ \E d \in DatasetPaths : wlocal' = [NoLocals EXCEPT !.dataset_path = d]
    /\ wpc' = "train_48"
    /\ wresult' = "none"
    /\ wcall' = Call("train")
    /\ UNCHANGED <<opc, vectorizer, model, is_trained, file, rpc, rlocal, rresult, completed>>

\* lines 48-62: read, preprocess and split the dataset
TrainRead ==
    /\ wpc = "train_48"
    /\ IF Readable(wlocal.dataset_path)
       THEN wpc' = "train_65" /\ UNCHANGED <<wlocal, wresult>>
       ELSE Raise
    /\ UNCHANGED <<opc, wcall, vectorizer, model, is_trained, file, rpc, rlocal, rresult, completed>>

\* lines 65-66: self.vectorizer.fit_transform refits the vectorizer in place
TrainFitVectorizer ==
    /\ wpc = "train_65"
    /\ vectorizer' = wlocal.dataset_path
    /\ wpc' = "train_70"
    /\ UNCHANGED <<opc, wcall, model, is_trained, file, wlocal, wresult, rpc, rlocal, rresult, completed>>

\* line 70: self.model.fit refits the model in place, or raises
TrainFitModel ==
    /\ wpc = "train_70"
    /\ IF Classes(wlocal.dataset_path) >= 2
       THEN /\ model' = wlocal.dataset_path
            /\ wpc' = "train_82"
            /\ UNCHANGED <<wlocal, wresult>>
       ELSE Raise /\ UNCHANGED model
    /\ UNCHANGED <<opc, wcall, vectorizer, is_trained, file, rpc, rlocal, rresult, completed>>

\* lines 73-82: evaluate, then self.is_trained = True
TrainSetTrained ==
    /\ wpc = "train_82"
    /\ is_trained' = TRUE
    /\ wpc' = "train_84"
    /\ UNCHANGED <<opc, wcall, vectorizer, model, file, wlocal, wresult, rpc, rlocal, rresult, completed>>

\* lines 84-87: return the report
TrainReturn ==
    /\ wpc = "train_84"
    /\ wpc' = "idle"
    /\ wresult' = "ok"
    /\ wlocal' = NoLocals
    /\ completed' = TRUE
    /\ UNCHANGED <<opc, wcall, vectorizer, model, is_trained, file, rpc, rlocal, rresult>>

\* ---- load (lines 123-132) ----

\* the call load(model_path)
StartLoad ==
    /\ wpc = "idle"
    /\ wpc' = "load_125"
    /\ wresult' = "none"
    /\ wcall' = Call("load")
    /\ UNCHANGED <<opc, vectorizer, model, is_trained, file, wlocal, rpc, rlocal, rresult, completed>>

\* lines 125-126: open and unpickle, or raise
LoadRead ==
    /\ wpc = "load_125"
    /\ IF file.kind = "dict"
       THEN /\ wlocal' = [wlocal EXCEPT !.data = file]
            /\ wpc' = "load_128"
            /\ UNCHANGED wresult
       ELSE Raise
    /\ UNCHANGED <<opc, wcall, vectorizer, model, is_trained, file, rpc, rlocal, rresult, completed>>

\* line 128: self.vectorizer = data["vectorizer"], or KeyError
LoadVectorizer ==
    /\ wpc = "load_128"
    /\ IF wlocal.data.vectorizer # Absent
       THEN /\ vectorizer' = wlocal.data.vectorizer
            /\ wpc' = "load_129"
            /\ UNCHANGED <<wlocal, wresult>>
       ELSE Raise /\ UNCHANGED vectorizer
    /\ UNCHANGED <<opc, wcall, model, is_trained, file, rpc, rlocal, rresult, completed>>

\* line 129: self.model = data["model"], or KeyError
LoadModel ==
    /\ wpc = "load_129"
    /\ IF wlocal.data.model # Absent
       THEN /\ model' = wlocal.data.model
            /\ wpc' = "load_130"
            /\ UNCHANGED <<wlocal, wresult>>
       ELSE Raise /\ UNCHANGED model
    /\ UNCHANGED <<opc, wcall, vectorizer, is_trained, file, rpc, rlocal, rresult, completed>>

\* line 130: self.is_trained = True
LoadSetTrained ==
    /\ wpc = "load_130"
    /\ is_trained' = TRUE
    /\ wpc' = "load_132"
    /\ UNCHANGED <<opc, wcall, vectorizer, model, file, wlocal, wresult, rpc, rlocal, rresult, completed>>

\* line 132: print and return
LoadReturn ==
    /\ wpc = "load_132"
    /\ wpc' = "idle"
    /\ wresult' = "ok"
    /\ wlocal' = NoLocals
    /\ completed' = TRUE
    /\ UNCHANGED <<opc, wcall, vectorizer, model, is_trained, file, rpc, rlocal, rresult>>

\* ---- save (lines 105-121) ----

\* the call save(model_path)
StartSave ==
    /\ wpc = "idle"
    /\ wpc' = "save_107"
    /\ wresult' = "none"
    /\ wcall' = Call("save")
    /\ UNCHANGED <<opc, vectorizer, model, is_trained, file, wlocal, rpc, rlocal, rresult, completed>>

\* A variant of save without the check of lines 107-108.
SaveUnchecked ==
    /\ wpc = "save_107"
    /\ wpc' = "save_112"
    /\ UNCHANGED <<wlocal, wresult>>
    /\ UNCHANGED <<opc, wcall, vectorizer, model, is_trained, file, rpc, rlocal, rresult, completed>>

\* lines 107-108: raise on an untrained instance
SaveCheck ==
    /\ wpc = "save_107"
    /\ IF is_trained
       THEN wpc' = "save_112" /\ UNCHANGED <<wlocal, wresult>>
       ELSE Raise
    /\ UNCHANGED <<opc, wcall, vectorizer, model, is_trained, file, rpc, rlocal, rresult, completed>>

\* lines 110-112: open(model_path, "wb") empties the file; os.makedirs or open
\* raises when the path has no directory part, its directory cannot be made, or
\* the path is a directory, and then nothing is written.
SaveOpen ==
    /\ wpc = "save_112"
    /\ \/ /\ file' = Corrupt
          /\ wpc' = "save_113"
          /\ wlocal' = [wlocal EXCEPT !.f = "open"]
          /\ UNCHANGED wresult
       \/ Raise /\ UNCHANGED file
    /\ UNCHANGED <<opc, wcall, vectorizer, model, is_trained, rpc, rlocal, rresult, completed>>

\* lines 113-121: pickle.dump of both attributes into f, then return; a file
\* removed from model_path since it was opened takes the bytes with it.  The
\* write raises when the disk is full or the file may not grow: nothing or a
\* part of the pickle has reached the file.
SaveDump ==
    /\ wpc = "save_113"
    /\ \/ /\ file' = IF wlocal.f = "unlinked" THEN file ELSE Blob(vectorizer, model)
          /\ wpc' = "idle"
          /\ wresult' = "ok"
          /\ wlocal' = NoLocals
       \/ /\ file' \in IF wlocal.f = "unlinked" THEN {file} ELSE {file, Corrupt}
          /\ Raise
    /\ UNCHANGED <<opc, wcall, vectorizer, model, is_trained, rpc, rlocal, rresult, completed>>

\* ---- predict (lines 89-103), by reader r ----

Finish(r, how) ==
    /\ rpc' = [rpc EXCEPT ![r] = "done"]
    /\ rresult' = [rresult EXCEPT ![r] = how]

\* the call predict(t)
StartPredictOn(r, t) ==
    /\ rpc[r] \in {"idle", "done"}
    /\ rpc' = [rpc EXCEPT ![r] = "predict_91"]
    /\ rlocal' = [rlocal EXCEPT ![r] =
                    [NoReaderLocals EXCEPT !.text = t, !.after_completed = completed]]
    /\ rresult' = [rresult EXCEPT ![r] = "none"]
    /\ UNCHANGED <<opc, wcall, vectorizer, model, is_trained, file, wpc, wlocal, wresult, completed>>

StartPredict(r) == \E t \in PredictTexts : StartPredictOn(r, t)

\* lines 91-92: raise "Model not trained or loaded!"
PredictCheck(r) ==
    /\ rpc[r] = "predict_91"
    /\ IF is_trained
       THEN rpc' = [rpc EXCEPT ![r] = "predict_95"] /\ UNCHANGED rresult
       ELSE Finish(r, "not_trained")
    /\ UNCHANGED <<opc, wcall, vectorizer, model, is_trained, file, wpc, wlocal, wresult, rlocal, completed>>

\* predict calling fit_transform where it should call transform: the
\* vectorizer is refitted on the one text.
PredictTransformFitting(r) ==
    /\ rpc[r] = "predict_95"
    /\ vectorizer' = "refitted"
    /\ rlocal' = [rlocal EXCEPT ![r].text_vec = "refitted"]
    /\ rpc' = [rpc EXCEPT ![r] = "predict_97"]
    /\ UNCHANGED <<opc, rresult, wcall, model, is_trained, file, wpc, wlocal, wresult, completed>>

\* lines 94-95: self.vectorizer.transform; an unfitted vectorizer raises
PredictTransform(r) ==
    /\ rpc[r] = "predict_95"
    /\ IF vectorizer # Unfitted
       THEN /\ rlocal' = [rlocal EXCEPT ![r].text_vec = vectorizer]
            /\ rpc' = [rpc EXCEPT ![r] = "predict_97"]
            /\ UNCHANGED rresult
       ELSE Finish(r, "error") /\ UNCHANGED rlocal
    /\ UNCHANGED <<opc, wcall, vectorizer, model, is_trained, file, wpc, wlocal, wresult, completed>>

\* self.model applied to text_vec: an unfitted model, or one fitted on vectors
\* of another width, raises
Applies(m, text_vec) == m # Unfitted /\ Features(m) = Features(text_vec)

\* line 97: intent = self.model.predict(text_vec)[0]
PredictIntent(r) ==
    /\ rpc[r] = "predict_97"
    /\ IF Applies(model, rlocal[r].text_vec)
       THEN /\ rlocal' = [rlocal EXCEPT ![r].intent = model]
            /\ rpc' = [rpc EXCEPT ![r] = "predict_98"]
            /\ UNCHANGED rresult
       ELSE Finish(r, "error") /\ UNCHANGED rlocal
    /\ UNCHANGED <<opc, wcall, vectorizer, model, is_trained, file, wpc, wlocal, wresult, completed>>

\* lines 98-103: confidence = max(self.model.predict_proba(text_vec)[0]); return
PredictConfidence(r) ==
    /\ rpc[r] = "predict_98"
    /\ IF Applies(model, rlocal[r].text_vec)
       THEN /\ rlocal' = [rlocal EXCEPT ![r].confidence = model]
            /\ Finish(r, "ok")
       ELSE Finish(r, "error") /\ UNCHANGED rlocal
    /\ UNCHANGED <<opc, wcall, vectorizer, model, is_trained, file, wpc, wlocal, wresult, completed>>

\* ---- the model file's other writers ----

\* The training entry point run as its own process (lines 138-149): a fresh
\* instance is trained on a well-formed dataset and saved to the model file.
\* Its save first empties the file (line 112) ...
OfflineOpen ==
    /\ opc = "idle"
    /\ opc' = "open"
    /\ file' = Corrupt
    /\ UNCHANGED <<wcall, vectorizer, model, is_trained, wpc, wlocal, wresult,
                   rpc, rlocal, rresult, completed>>

\* ... and writes the blob when the with block ends (lines 113-119), into the
\* file it opened: over whatever has been written there since, or nowhere when
\* the file has been removed from the path; or the write fails as in SaveDump.
OfflineDump ==
    /\ opc # "idle"
    /\ opc' = "idle"
    /\ \/ \E d \in DatasetPaths :
            /\ Readable(d) /\ Classes(d) >= 2
            /\ file' = IF opc = "unlinked" THEN file ELSE Blob(d, d)
       \/ file' \in IF opc = "unlinked" THEN {file} ELSE {file, Corrupt}
    /\ UNCHANGED <<wcall, vectorizer, model, is_trained, wpc, wlocal, wresult,
                   rpc, rlocal, rresult, completed>>

\* The file is removed, damaged, or replaced by a pickle that lacks one of the
\* two entries load reads (lines 125-129).  A removal while a save holds the
\* file open leaves that save writing to a file no longer at model_path.
DamageFile ==
    /\ \/ /\ file' = Missing
          /\ wlocal' = IF wlocal.f = "open" THEN [wlocal EXCEPT !.f = "unlinked"]
                        ELSE wlocal
          /\ opc' = IF opc = "open" THEN "unlinked" ELSE opc
       \/ file' = Corrupt /\ UNCHANGED <<wlocal, opc>>
       \/ file.kind = "dict" /\ file' = [file EXCEPT !.model = Absent]
            /\ UNCHANGED <<wlocal, opc>>
       \/ file.kind = "dict" /\ file' = [file EXCEPT !.vectorizer = Absent]
            /\ UNCHANGED <<wlocal, opc>>
    /\ file' # file
    /\ UNCHANGED <<wcall, vectorizer, model, is_trained, wpc, wresult,
                   rpc, rlocal, rresult, completed>>

\* No call is in progress on the instance.
Quiet == wpc = "idle" /\ \A r \in Readers : rpc[r] \in {"idle", "done"}

WriterStart == StartTrain \/ StartLoad \/ StartSave
WriterStep ==
    \/ TrainRead \/ TrainFitVectorizer \/ TrainFitModel \/ TrainSetTrained \/ TrainReturn
    \/ LoadRead \/ LoadVectorizer \/ LoadModel \/ LoadSetTrained \/ LoadReturn
    \/ SaveCheck \/ SaveOpen \/ SaveDump
ReaderStep(r) ==
    PredictCheck(r) \/ PredictTransform(r) \/ PredictIntent(r) \/ PredictConfidence(r)
FileStep == OfflineOpen \/ OfflineDump \/ DamageFile


\* The entity dict of the module's own first test case (action_decider.py:267-276).
TestEntities ==
    [ pickup_location |-> Some(Codes("Mumbai")), drop_location |-> None,
      weight_kg |-> Some([whole |-> "10", fraction |-> ""]), packages |-> None,
      pickup_time |-> None, fragile |-> FALSE, payment_mode |-> None,
      phone_number |-> None ]

\* The service has answered no request yet.
NoResponse == [route |-> "", status |-> 0]
InitService == ppc = "off" /\ stages = <<>> /\ response = NoResponse

\* ---- the service (main.py) ----
\* What the model file may hold when the service starts: nothing, no pickle, a
\* saved model, a pickle lacking an entry, or the pair a save wrote after a
\* failed train.
ModelFiles ==
    { Missing, Corrupt, Blob("A", "A"), Blob("A", Absent), Blob(Absent, "A"),
      Blob("single", "A") }

\* request.text of the requests, with the places each names: empty, white
\* space only (blanks and a tab; a no-break space, a next-line control and a
\* line separator), queries with white space around them, and a query whose
\* package count has 4301 digits.
RequestCases ==
    { [t |-> <<>>, places |-> <<>>],
      [t |-> [i \in 1..4301 |-> 49] \o Codes(" boxes"), places |-> <<>>],
      [t |-> Codes("  \t "), places |-> <<>>],
      [t |-> <<160, 133, 8232>>, places |-> <<>>],
      [t |-> <<160>> \o Codes("Mera order track karo") \o <<32, 12288>>, places |-> <<>>],
      [t |-> Codes("Pickup karna hai Andheri se Powai, 2 boxes hai"),
       places |-> <<Codes("Andheri"), Codes("Powai")>>],
      [t |-> Codes("Rate batao Mumbai to Pune 10kg fragile package\n"),
       places |-> <<Codes("Mumbai"), Codes("Pune")>>] }

\* The messages of the exceptions the recogniser may raise (entity_extractor.py:69);
\* they are the library's, and an input here.
RecogniserErrors == {"", "[E088] Text exceeds maximum length"}

\* str(e) of the exception reader r's predict has raised: the one of line 92,
\* or the library's for a vectorizer not fitted (line 95), a model not fitted
\* or a model fitted on vectors of another width (line 97).
PredictError(r) ==
    IF rresult[r] = "not_trained" THEN "Model not trained or loaded!"
    ELSE IF rlocal[r].text_vec = Unfitted THEN "The TF-IDF vectorizer is not fitted"
    ELSE IF model = Unfitted
    THEN "This LogisticRegression instance is not fitted yet. Call 'fit' with appropriate arguments before using this estimator."
    ELSE "X has " \o ToString(Features(rlocal[r].text_vec))
            \o " features, but LogisticRegression is expecting "
            \o ToString(Features(model)) \o " features as input."

\* The handler's locals before it has assigned them.
FreshLocals ==
    /\ intent' = ""
    /\ confidence' = 100
    /\ entities' = TestEntities
    /\ supplied' = TestEntities
    /\ directive' = NoCall
    /\ extracted' = NoExtract

\* The module is imported (main.py:22-32).  The components are constructed
\* and intent_classifier.load(MODEL_PATH) is called; or EntityExtractor()
\* raises at line 25, where spacy.load fails again after the download
\* (entity_extractor.py:20-26): nothing handles that OSError, the import ends
\* there and the service does not start.
ServiceStart ==
    /\ ppc = "off"
    /\ \/ /\ StartLoad
          /\ ppc' = "load_32"
       \/ /\ ppc' = "raised_25"
          /\ UNCHANGED cvars
    /\ UNCHANGED <<dvars, xvars, stages, response>>

\* The steps of that load.
ServiceLoad ==
    /\ ppc = "load_32"
    /\ LoadRead \/ LoadVectorizer \/ LoadModel \/ LoadSetTrained \/ LoadReturn
    /\ UNCHANGED <<dvars, xvars, pvars>>

\* main.py:33-36: the load has returned or raised; either way a line is
\* printed and the service starts serving.
ServiceUp ==
    /\ ppc = "load_32"
    /\ wpc = "idle"
    /\ ppc' = "serving"
    /\ UNCHANGED <<dvars, cvars, xvars, stages, response>>

\* GET / (main.py:59-66): the health check.
Root ==
    /\ ppc = "serving"
    /\ response' = [ route |-> "/", status |-> 200,
                     body |-> [ status |-> "running",
                                service |-> "Voice-to-Action AI Pipeline",
                                version |-> "1.0.0" ] ]
    /\ stages' = <<>>
    /\ UNCHANGED <<dvars, cvars, xvars, ppc>>

\* A request to POST /voice-agent/parse arrives (main.py:69-70).
ParseRequest ==
    /\ ppc = "serving"
    /\ \E c \in RequestCases :
        /\ query_text' = c.t
        /\ ner' \in NerOutputs(c.places)
    /\ FreshLocals
    /\ stages' = <<>>
    /\ response' = NoResponse
    /\ ppc' = "parse_80"
    /\ UNCHANGED <<cvars, normalized>>

\* main.py:80-84: strip the text; an empty one is answered with 400.
ParseStrip ==
    /\ ppc = "parse_80"
    /\ query_text' = strip(query_text)
    /\ IF query_text' = <<>>
       THEN /\ response' = [ route |-> "/voice-agent/parse", status |-> 400,
                             detail |-> "Query text cannot be empty" ]
            /\ ppc' = "serving"
       ELSE /\ ppc' = "parse_88"
            /\ UNCHANGED response
    /\ UNCHANGED <<dvars, cvars, ner, extracted, normalized, stages>>

\* main.py:88: intent_classifier.predict(query_text) is called.
ParseClassify ==
    /\ ppc = "parse_88"
    /\ StartPredictOn(1, query_text)
    /\ stages' = Append(stages, "classify")
    /\ ppc' = "predict"
    /\ UNCHANGED <<dvars, xvars, response>>

\* The steps of the predict a handler has called (main.py:88, 125).
ParsePredict ==
    /\ ppc \in {"predict", "intent_125"}
    /\ ReaderStep(1)
    /\ UNCHANGED <<dvars, xvars, pvars>>

\* The handler going on with a default label when predict has raised.
ParseClassifiedFallback ==
    /\ ppc = "predict"
    /\ rpc[1] = "done"
    /\ \E i \in DOMAIN INTENT_REQUIREMENTS, c \in Confidences :
            intent' = (IF rresult[1] = "ok" THEN i ELSE "UNKNOWN") /\ confidence' = c
    /\ ppc' = "parse_96"
    /\ UNCHANGED <<entities, supplied, directive, cvars, xvars, stages, response>>

\* main.py:87-93: predict has returned a label of the model and a confidence,
\* or it has raised and the request is answered with 500.
ParseClassified ==
    /\ ppc = "predict"
    /\ rpc[1] = "done"
    /\ IF rresult[1] = "ok"
       THEN /\ \E i \in DOMAIN INTENT_REQUIREMENTS, c \in Confidences :
                    intent' = i /\ confidence' = c
            /\ ppc' = "parse_96"
            /\ UNCHANGED response
       ELSE /\ response' =
                [ route |-> "/voice-agent/parse", status |-> 500,
                  detail |-> "Intent classification failed. Make sure model is trained. Error: "
                                \o PredictError(1) ]
            /\ ppc' = "serving"
            /\ UNCHANGED <<intent, confidence>>
    /\ UNCHANGED <<entities, supplied, directive, cvars, xvars, stages>>

\* main.py:96: entities = entity_extractor.extract(query_text); when int()
\* or the recogniser raises, the exception leaves extract and is answered
\* with 500 by the handler's outer except (main.py:115-116).
ParseExtract ==
    /\ ppc = "parse_96"
    /\ stages' = Append(stages, "extract")
    /\ \/ \E result \in {extract(query_text, ner)} :
             IF "raises" \in DOMAIN result
             THEN /\ response' = [ route |-> "/voice-agent/parse", status |-> 500,
                                   detail |-> "Internal error: " \o result.message ]
                  /\ ppc' = "serving"
                  /\ UNCHANGED extracted
             ELSE /\ extracted' = result
                  /\ ppc' = "parse_99"
                  /\ UNCHANGED response
       \/ \E m \in RecogniserErrors :
          /\ response' = [ route |-> "/voice-agent/parse", status |-> 500,
                           detail |-> "Internal error: " \o m ]
          /\ ppc' = "serving"
          /\ UNCHANGED extracted
    /\ UNCHANGED <<dvars, cvars, query_text, ner, normalized>>

\* main.py:99-103: next_action = action_decider.decide_action(...)
ParseDecide ==
    /\ ppc = "parse_99"
    /\ supplied' = extracted
    /\ directive' = decide_action(intent, extracted, confidence)
    /\ entities' = entities_after_call(intent, extracted)
    /\ stages' = Append(stages, "decide")
    /\ ppc' = "parse_106"
    /\ UNCHANGED <<intent, confidence, cvars, xvars, response>>

\* main.py:106-111: the response is returned.
ParseRespond ==
    /\ ppc = "parse_106"
    /\ response' = [ route |-> "/voice-agent/parse", status |-> 200,
                     body |-> [ query |-> query_text,
                                intent |-> [intent |-> intent, confidence |-> confidence],
                                entities |-> entities, next_action |-> directive ] ]
    /\ ppc' = "serving"
    /\ UNCHANGED <<dvars, cvars, xvars, stages>>

\* A request to POST /voice-agent/intent-only arrives (main.py:119-125):
\* intent_classifier.predict(request.text) is called on the text as it is.
IntentRequest ==
    /\ ppc = "serving"
    /\ \E c \in RequestCases :
        /\ query_text' = c.t
        /\ ner' = <<>>
        /\ StartPredictOn(1, c.t)
    /\ FreshLocals
    /\ stages' = <<"classify">>
    /\ response' = NoResponse
    /\ ppc' = "intent_125"
    /\ UNCHANGED normalized

\* main.py:125-128: the result of predict is returned, or its exception is
\* answered with 500.
IntentRespond ==
    /\ ppc = "intent_125"
    /\ rpc[1] = "done"
    /\ IF rresult[1] = "ok"
       THEN \E i \in DOMAIN INTENT_REQUIREMENTS, c \in Confidences :
                response' = [ route |-> "/voice-agent/intent-only", status |-> 200,
                              body |-> [intent |-> i, confidence |-> c] ]
       ELSE response' = [ route |-> "/voice-agent/intent-only", status |-> 500,
                          detail |-> PredictError(1) ]
    /\ ppc' = "serving"
    /\ UNCHANGED <<dvars, cvars, xvars, stages>>

\* A request to POST /voice-agent/entities-only arrives (main.py:131-137):
\* entity_extractor.extract(request.text) is called on the text as it is.
EntitiesRequest ==
    /\ ppc = "serving"
    /\ \E c \in RequestCases :
        /\ query_text' = c.t
        /\ ner' \in NerOutputs(c.places)
    /\ FreshLocals
    /\ stages' = <<"extract">>
    /\ response' = NoResponse
    /\ ppc' = "entities_137"
    /\ UNCHANGED <<cvars, normalized>>

\* main.py:137-140: the entities are returned, or the exception of int() or
\* of the recogniser is answered with 500.
EntitiesRespond ==
    /\ ppc = "entities_137"
    /\ \/ \E result \in {extract(query_text, ner)} :
             IF "raises" \in DOMAIN result
             THEN /\ response' = [ route |-> "/voice-agent/entities-only", status |-> 500,
                                   detail |-> result.message ]
                  /\ UNCHANGED extracted
             ELSE /\ extracted' = result
                  /\ response' = [ route |-> "/voice-agent/entities-only", status |-> 200,
                                   body |-> result ]
       \/ \E m \in RecogniserErrors :
          /\ response' = [ route |-> "/voice-agent/entities-only", status |-> 500,
                           detail |-> m ]
          /\ UNCHANGED extracted
    /\ ppc' = "serving"
    /\ UNCHANGED <<dvars, cvars, query_text, ner, normalized, stages>>

(***************************************************************************)
(* Specifications                                                          *)
(***************************************************************************)

\* The decider and its caller; the classifier stays as constructed.
Init == InitDecider /\ InitClassifier /\ InitText /\ InitService
Next == DecideAction \/ NewEntities
Spec == Init /\ [][Next]_vars

InitIdleDecider == InitDecider /\ entities = TestEntities

\* The classifier used by one thread: a call starts only when none is in progress.
InitSequential == InitIdleDecider /\ InitClassifier /\ InitText /\ InitService
NextSequential ==
    \/ (Quiet /\ WriterStart /\ UNCHANGED <<dvars, xvars, pvars>>)
    \/ (Quiet /\ FileStep /\ UNCHANGED <<dvars, xvars, pvars>>)
    \/ (\E r \in Readers : Quiet /\ StartPredict(r) /\ UNCHANGED <<dvars, xvars, pvars>>)
    \/ (WriterStep /\ UNCHANGED <<dvars, xvars, pvars>>)
    \/ (\E r \in Readers : ReaderStep(r) /\ UNCHANGED <<dvars, xvars, pvars>>)
SpecSequential == InitSequential /\ [][NextSequential]_vars

\* The instance and its model file with no predict call: train, save and load
\* one after the other, the file also written by the offline training run.
NextPersist ==
    \/ (Quiet /\ WriterStart /\ UNCHANGED <<dvars, xvars, pvars>>)
    \/ (Quiet /\ FileStep /\ UNCHANGED <<dvars, xvars, pvars>>)
    \/ (WriterStep /\ UNCHANGED <<dvars, xvars, pvars>>)
SpecPersist == InitSequential /\ [][NextPersist]_vars

\* The classifier shared by a writer thread and one concurrent predict caller.
NextConcurrent ==
    \/ (WriterStart /\ UNCHANGED <<dvars, xvars, pvars>>)
    \/ (WriterStep /\ UNCHANGED <<dvars, xvars, pvars>>)
    \/ (FileStep /\ UNCHANGED <<dvars, xvars, pvars>>)
    \/ (StartPredict(1) /\ UNCHANGED <<dvars, xvars, pvars>>)
    \/ (ReaderStep(1) /\ UNCHANGED <<dvars, xvars, pvars>>)
SpecConcurrent == InitSequential /\ [][NextConcurrent]_vars

\* The extractor applied to one text on which the recogniser answers; the
\* decider and the classifier stay as constructed.
InitExtract ==
    /\ InitIdleDecider /\ InitClassifier /\ InitService
    /\ \E c \in TextCases :
        /\ query_text = c.t
        /\ ner \in NerOutputs(c.places)
    /\ extracted = NoExtract
    /\ normalized = None
NextExtract == Extract /\ UNCHANGED <<dvars, cvars, pvars>>
SpecExtract == InitExtract /\ [][NextExtract]_vars

\* preprocess_text applied to one text.
InitPreprocess ==
    /\ InitIdleDecider /\ InitClassifier /\ InitService
    /\ query_text \in PreprocessTexts
    /\ ner = <<>>
    /\ extracted = NoExtract
    /\ normalized = None
NextPreprocess == Preprocess /\ UNCHANGED <<dvars, cvars, pvars>>
SpecPreprocess == InitPreprocess /\ [][NextPreprocess]_vars

\* A trained classifier on which only predict and save are called, by any
\* number of threads at once: the state after train(d) has returned.
InitReadOnly ==
    /\ InitIdleDecider /\ InitText /\ InitService
    /\ \E d \in {p \in DatasetPaths : Readable(p) /\ Classes(p) >= 2} :
        /\ vectorizer = d
        /\ model = d
    /\ is_trained = TRUE
    /\ file = Missing
    /\ wpc = "idle"
    /\ wlocal = NoLocals
    /\ wresult = "ok"
    /\ wcall = [name |-> "train", vectorizer |-> Unfitted, model |-> Unfitted,
                is_trained |-> FALSE]
    /\ rpc = [r \in Readers |-> "idle"]
    /\ rlocal = [r \in Readers |-> NoReaderLocals]
    /\ rresult = [r \in Readers |-> "none"]
    /\ completed = TRUE
    /\ opc = "idle"
NextReadOnly ==
    \/ (StartSave /\ UNCHANGED <<dvars, xvars, pvars>>)
    \/ ((SaveCheck \/ SaveOpen \/ SaveDump) /\ UNCHANGED <<dvars, xvars, pvars>>)
    \/ (\E r \in Readers : StartPredict(r) /\ UNCHANGED <<dvars, xvars, pvars>>)
    \/ (\E r \in Readers : ReaderStep(r) /\ UNCHANGED <<dvars, xvars, pvars>>)
SpecReadOnly == InitReadOnly /\ [][NextReadOnly]_vars

\* The service: it starts, whatever the model file holds, and answers one
\* request after the other, on any of its four routes.
InitServer ==
    /\ InitIdleDecider /\ InitText /\ InitService
    /\ vectorizer = Unfitted
    /\ model = Unfitted
    /\ is_trained = FALSE
    /\ file \in ModelFiles
    /\ wpc = "idle"
    /\ wlocal = NoLocals
    /\ wresult = "none"
    /\ wcall = Call("__init__")
    /\ rpc = [r \in Readers |-> "idle"]
    /\ rlocal = [r \in Readers |-> NoReaderLocals]
    /\ rresult = [r \in Readers |-> "none"]
    /\ completed = FALSE
    /\ opc = "idle"
NextServer ==
    \/ ServiceStart \/ ServiceLoad \/ ServiceUp
    \/ ParseRequest \/ ParseStrip \/ ParseClassify \/ ParsePredict \/ ParseClassified
    \/ ParseExtract \/ ParseDecide \/ ParseRespond
    \/ Root \/ IntentRequest \/ IntentRespond \/ EntitiesRequest \/ EntitiesRespond
SpecServer == InitServer /\ [][NextServer]_vars

(***************************************************************************)
(* Properties of the ActionDecider (checked under Spec)                    *)
(***************************************************************************)

\* The required fields of intent i that are null in e, in the table's order.
NullRequired(i, e) ==
    SelectSeq(INTENT_REQUIREMENTS[i].required, LAMBDA f : e[f] = None)

AllNull ==
    [ pickup_location |-> None, drop_location |-> None, weight_kg |-> None,
      packages |-> None, pickup_time |-> None, fragile |-> FALSE,
      payment_mode |-> None, phone_number |-> None ]

\* C1: for an intent of the requirement table with at least one required field
\* null, decide_action returns ASK_MISSING_FIELDS and missing_fields is exactly
\* the null required fields in the table's order (CHECK_RATE with only
\* pickup_location set lists drop_location, weight_kg); fragile is never listed.
C1_MissingFields ==
    (Called /\ intent \in DOMAIN INTENT_REQUIREMENTS
            /\ \E f \in {"pickup_location", "drop_location", "weight_kg",
                         "packages", "pickup_time"} :
                  /\ \E k \in 1..Len(INTENT_REQUIREMENTS[intent].required) :
                        INTENT_REQUIREMENTS[intent].required[k] = f
                  /\ supplied[f] = None)
    => /\ directive.next_action = "ASK_MISSING_FIELDS"
       /\ directive.missing_fields = NullRequired(intent, supplied)
       /\ \A k \in 1..Len(directive.missing_fields) :
             directive.missing_fields[k] # "fragile"
       /\ (/\ intent = "CHECK_RATE"
           /\ supplied.pickup_location # None
           /\ supplied.drop_location = None
           /\ supplied.weight_kg = None)
          => directive.missing_fields = <<"drop_location", "weight_kg">>

C1_Witness ==
    /\ Called
    /\ intent = "CHECK_RATE"
    /\ supplied.pickup_location # None
    /\ supplied.drop_location = None
    /\ supplied.weight_kg = None
    /\ supplied.fragile = FALSE
    /\ directive.next_action = "ASK_MISSING_FIELDS"
    /\ directive.missing_fields = <<"drop_location", "weight_kg">>

BookPickupReady ==
    /\ Called
    /\ intent = "BOOK_PICKUP"
    /\ supplied.pickup_location # None
    /\ supplied.drop_location # None
    /\ supplied.packages # None

\* C4: BOOK_PICKUP with its three required fields non-null returns
\* CREATE_BOOKING (booking_api, parameters = the entity set) if and only if
\* pickup_time and phone_number are both non-null, and otherwise
\* ASK_OPTIONAL_FIELDS with can_proceed and optional_fields = the null ones
\* among pickup_time, phone_number, in that order.
C4_BookPickup ==
    BookPickupReady =>
        IF supplied.pickup_time # None /\ supplied.phone_number # None
        THEN /\ directive.next_action = "CREATE_BOOKING"
             /\ directive.api_call = "booking_api"
             /\ directive.parameters = supplied
        ELSE /\ directive.next_action = "ASK_OPTIONAL_FIELDS"
             /\ directive.can_proceed = TRUE
             /\ directive.optional_fields =
                    SelectSeq(<<"pickup_time", "phone_number">>,
                              LAMBDA f : supplied[f] = None)

C4_Witness ==
    /\ BookPickupReady
    /\ supplied.pickup_time = None
    /\ supplied.phone_number = None
    /\ directive.next_action = "ASK_OPTIONAL_FIELDS"
    /\ directive.optional_fields = <<"pickup_time", "phone_number">>
    /\ directive.can_proceed = TRUE

\* The tag and the message are those the intent gets on the all-null entity set.
SameTagAndMessage ==
    /\ directive.next_action = decide_action(intent, AllNull, confidence).next_action
    /\ directive.message = decide_action(intent, AllNull, confidence).message

\* C5 as stated: each of TRACK_ORDER, CANCEL_ORDER, RESCHEDULE_PICKUP,
\* RAISE_COMPLAINT, CONNECT_TO_AGENT, PAYMENT_QUERY, DOCUMENT_UPLOAD_QUERY gets
\* the same tag and message for every entity set, and never ASK_MISSING_FIELDS.
C5_AsStated ==
    (Called /\ intent \in {"TRACK_ORDER", "CANCEL_ORDER", "RESCHEDULE_PICKUP",
                           "RAISE_COMPLAINT", "CONNECT_TO_AGENT", "PAYMENT_QUERY",
                           "DOCUMENT_UPLOAD_QUERY"})
    => /\ directive.next_action # "ASK_MISSING_FIELDS"
       /\ SameTagAndMessage

\* C5 (amended): each of the six intents TRACK_ORDER, CANCEL_ORDER,
\* RAISE_COMPLAINT, CONNECT_TO_AGENT, PAYMENT_QUERY, DOCUMENT_UPLOAD_QUERY gets
\* the same tag and message for every entity set, and never ASK_MISSING_FIELDS;
\* RESCHEDULE_PICKUP requires pickup_time: ASK_MISSING_FIELDS listing it when it
\* is null, ASK_ORDER_ID otherwise.
C5_NoRequirementIntents ==
    /\ (Called /\ intent \in {"TRACK_ORDER", "CANCEL_ORDER", "RAISE_COMPLAINT",
                              "CONNECT_TO_AGENT", "PAYMENT_QUERY",
                              "DOCUMENT_UPLOAD_QUERY"})
       => /\ directive.next_action # "ASK_MISSING_FIELDS"
          /\ SameTagAndMessage
    /\ (Called /\ intent = "RESCHEDULE_PICKUP")
       => IF supplied.pickup_time = None
          THEN /\ directive.next_action = "ASK_MISSING_FIELDS"
               /\ directive.missing_fields = <<"pickup_time">>
          ELSE directive.next_action = "ASK_ORDER_ID"

C5_Witness ==
    /\ Called
    /\ intent = "TRACK_ORDER"
    /\ supplied.phone_number = Some(Codes("9876543210"))
    /\ supplied.pickup_time = Some(Codes("morning"))
    /\ directive.next_action = "ASK_TRACKING_INFO"

\* The directive carries the phone number as contact context.
CarriesContact == "contact" \in DOMAIN directive /\ directive.contact = supplied.phone_number

\* The directive is the one the intent gets on the all-null entity set.
EntityIndependent == directive = decide_action(intent, AllNull, confidence)

\* C6 as stated: RAISE_COMPLAINT and TRACK_ORDER carry a non-null phone_number
\* as contact context; the directive of the other intents without required
\* fields does not depend on any entity value.
C6_AsStated ==
    /\ (Called /\ intent \in {"RAISE_COMPLAINT", "TRACK_ORDER"}
               /\ supplied.phone_number # None) => CarriesContact
    /\ (Called /\ intent \in {"CANCEL_ORDER", "CONNECT_TO_AGENT", "PAYMENT_QUERY",
                              "DOCUMENT_UPLOAD_QUERY"}) => EntityIndependent

\* C6 (amended): RAISE_COMPLAINT carries the entity set's phone_number as
\* contact context; the directive of TRACK_ORDER and of the other intents
\* without required fields does not depend on any entity value.
C6_ContactContext ==
    /\ (Called /\ intent = "RAISE_COMPLAINT") => CarriesContact
    /\ (Called /\ intent \in {"TRACK_ORDER", "CANCEL_ORDER", "CONNECT_TO_AGENT",
                              "PAYMENT_QUERY", "DOCUMENT_UPLOAD_QUERY"})
       => EntityIndependent

C6_Witness ==
    /\ Called
    /\ intent = "RAISE_COMPLAINT"
    /\ supplied.phone_number = Some(Codes("9876543210"))
    /\ directive.contact = Some(Codes("9876543210"))

\* C7: decide_action returns UNKNOWN if and only if the label is not a key of
\* the requirement table, and then, for every entity set, the directive has a
\* message and echoes the raw label.
C7_UnknownIntent ==
    Called =>
        /\ directive.next_action = "UNKNOWN" <=> intent \notin DOMAIN INTENT_REQUIREMENTS
        /\ directive.next_action = "UNKNOWN" =>
              /\ directive.message # ""
              /\ directive.intent = intent

C7_Witness ==
    /\ Called
    /\ intent = "FOO"
    /\ supplied = AllNull
    /\ directive.next_action = "UNKNOWN"
    /\ directive.intent = "FOO"

\* C8: the directive is the same whatever confidence is passed and whatever was
\* called before, and the call leaves the supplied entity set unchanged.
C8_ConfidenceIgnored ==
    Called =>
        /\ \A c \in Confidences : directive = decide_action(intent, supplied, c)
        /\ entities = supplied

C8_Witness ==
    /\ Called
    /\ confidence = 5
    /\ intent = "CHECK_RATE"
    /\ directive.next_action = "CALCULATE_RATE"
    /\ entities = supplied

\* C9: no directive names an external API while a required field is null:
\* CALCULATE_RATE (pricing_api) only for CHECK_RATE with pickup_location,
\* drop_location and weight_kg non-null, passed as from/to/weight;
\* CHECK_SERVICE_AREA (serviceability_api) only for CHECK_SERVICEABILITY with
\* drop_location non-null, passed as location; no parameter of either is null.
C9_ApiParameters ==
    Called =>
        /\ "api_call" \in DOMAIN directive =>
              /\ intent \in DOMAIN INTENT_REQUIREMENTS
              /\ NullRequired(intent, supplied) = <<>>
        /\ (intent = "CHECK_RATE" /\ directive.next_action # "ASK_MISSING_FIELDS")
           \/ directive.next_action = "CALCULATE_RATE"
           \/ ("api_call" \in DOMAIN directive /\ directive.api_call = "pricing_api") =>
              /\ intent = "CHECK_RATE"
              /\ directive.next_action = "CALCULATE_RATE"
              /\ directive.api_call = "pricing_api"
              /\ directive.parameters = [ from   |-> supplied.pickup_location,
                                          to     |-> supplied.drop_location,
                                          weight |-> supplied.weight_kg ]
              /\ \A k \in DOMAIN directive.parameters : directive.parameters[k] # None
        /\ (intent = "CHECK_SERVICEABILITY" /\ directive.next_action # "ASK_MISSING_FIELDS")
           \/ directive.next_action = "CHECK_SERVICE_AREA"
           \/ ("api_call" \in DOMAIN directive /\ directive.api_call = "serviceability_api") =>
              /\ intent = "CHECK_SERVICEABILITY"
              /\ directive.next_action = "CHECK_SERVICE_AREA"
              /\ directive.api_call = "serviceability_api"
              /\ directive.parameters = [ location |-> supplied.drop_location ]
              /\ directive.parameters.location # None

C9_Witness ==
    /\ Called
    /\ intent = "CHECK_RATE"
    /\ directive.next_action = "CALCULATE_RATE"
    /\ directive.parameters = [ from |-> Some(Codes("Andheri")), to |-> Some(Codes("Powai")),
                                weight |-> Some([whole |-> "10", fraction |-> ""]) ]

\* The readable names in list order, commas between them, "and" before the last.
RECURSIVE NamedList(_)
NamedList(names) ==
    IF Len(names) = 1 THEN names[1]
    ELSE IF Len(names) = 2 THEN names[1] \o " and " \o names[2]
    ELSE names[1] \o ", " \o NamedList(Tail(names))

ExpectedPrompt(fields) ==
    "Please provide "
        \o NamedList([k \in 1..Len(fields) |-> field_messages(fields[k])]) \o "."

\* C10 as stated: every ASK_MISSING_FIELDS directive carries the generated
\* message naming each field of missing_fields.
C10_AsStated ==
    (Called /\ directive.next_action = "ASK_MISSING_FIELDS")
    => directive.message = ExpectedPrompt(directive.missing_fields)

\* C10 (amended): every ASK_MISSING_FIELDS directive of CHECK_RATE,
\* CHECK_SERVICEABILITY and BOOK_PICKUP carries the generated message naming
\* each field of missing_fields (readable names in list order, commas, "and"
\* before the last, a single field alone); the one of RESCHEDULE_PICKUP carries
\* the fixed question "When would you like to reschedule the pickup?".
C10_MissingFieldsMessage ==
    (Called /\ directive.next_action = "ASK_MISSING_FIELDS")
    => /\ intent \in {"CHECK_RATE", "CHECK_SERVICEABILITY", "BOOK_PICKUP",
                      "RESCHEDULE_PICKUP"}
       /\ directive.missing_fields # <<>>
       /\ IF intent = "RESCHEDULE_PICKUP"
          THEN directive.message = "When would you like to reschedule the pickup?"
          ELSE directive.message = ExpectedPrompt(directive.missing_fields)

C10_Witness ==
    /\ Called
    /\ intent = "CHECK_RATE"
    /\ directive.next_action = "ASK_MISSING_FIELDS"
    /\ directive.missing_fields = <<"pickup_location", "drop_location", "weight_kg">>
    /\ directive.message =
          "Please provide pickup location, delivery location and package weight (in kg)."

(***************************************************************************)
(* Properties of the IntentClassifier                                      *)
(***************************************************************************)

\* C2 (checked under SpecSequential): a finished predict failed with the
\* not-trained error exactly when no train or load had completed before it was
\* called; called after one completed, it succeeded; and the instance, once a
\* train or load has completed, is never untrained again.
C2_PredictLifecycle ==
    /\ \A r \in Readers :
          rpc[r] = "done" =>
              /\ rresult[r] = "not_trained" <=> ~rlocal[r].after_completed
              /\ rlocal[r].after_completed => rresult[r] = "ok"
    /\ completed => is_trained

\* C3 (checked under SpecConcurrent): every predict that returns used a
\* vectorizer and a model of the same trained model, for the intent label and
\* for the confidence alike.
C3_AtomicSwap ==
    \A r \in Readers :
        rresult[r] = "ok" =>
            /\ rlocal[r].text_vec = rlocal[r].intent
            /\ rlocal[r].intent = rlocal[r].confidence

(***************************************************************************)
(* Properties of the EntityExtractor (checked under SpecExtract)           *)
(*                                                                         *)
(* The properties say what a field is from the text alone: where a number, *)
(* a clock time or a phone number stands in the text is written out here   *)
(* character by character, and not taken from the operators of the rules.  *)
(***************************************************************************)

\* Every character of s from position i to position j satisfies P.
AllOf(s, i, j, P(_)) == \A k \in i..j : P(s[k])

\* Somewhere in tl one of the units stands after a number and any white space:
\* the number ends in a decimal digit or, if a point is allowed, in a point
\* that follows a decimal digit.
NumberBeforeUnit(tl, units, point) ==
    \E u \in units : \E j \in 2..Len(tl) :
        /\ StartsAt(tl, j, u)
        /\ \E p \in 2..j :
              /\ AllOf(tl, p, j - 1, IsSpace)
              /\ \/ IsDigit(tl[p - 1])
                 \/ point /\ p >= 3 /\ tl[p - 1] = 46 /\ IsDigit(tl[p - 2])

WeightOccurs(t) ==
    NumberBeforeUnit(lower(t), {Codes("kg"), Codes("kilogram"), Codes("kilos")}, TRUE)

PackagesOccurs(t) ==
    NumberBeforeUnit(lower(t), {Codes("box"), Codes("package"), Codes("parcel"),
                                Codes("item")}, FALSE)

\* x is one or two decimal digits, any white space and the word w.
HourThenWord(x, w) ==
    LET n == Len(x) - Len(w)
    IN /\ n >= 1
       /\ SubSeq(x, n + 1, Len(x)) = w
       /\ \E h \in {1, 2} :
             /\ h <= n
             /\ AllOf(x, 1, h, IsDigit)
             /\ AllOf(x, h + 1, n, IsSpace)

\* x is one or two decimal digits, a colon and two decimal digits, then any
\* white space, then nothing or am or pm.
HourAndMinutes(x) ==
    \E h \in {1, 2} :
        /\ Len(x) >= h + 3
        /\ AllOf(x, 1, h, IsDigit)
        /\ x[h + 1] = 58
        /\ AllOf(x, h + 2, h + 3, IsDigit)
        /\ \/ AllOf(x, h + 4, Len(x), IsSpace)
           \/ /\ Len(x) >= h + 5
              /\ SubSeq(x, Len(x) - 1, Len(x)) \in {Codes("am"), Codes("pm")}
              /\ AllOf(x, h + 4, Len(x) - 2, IsSpace)

\* x reads as a clock time of the k-th form of the list: "6 pm", "4:30 pm",
\* "6 baje".
ReadsAsClock(k, x) ==
    CASE k = 1 -> HourThenWord(x, Codes("am")) \/ HourThenWord(x, Codes("pm"))
      [] k = 2 -> HourAndMinutes(x)
      [] k = 3 -> HourThenWord(x, Codes("baje"))

\* The stretches <<first, last>> of tl that read as a clock time of form k.
ClockTexts(tl, k) ==
    { p \in (1..Len(tl)) \X (1..Len(tl)) :
        /\ p[1] <= p[2]
        /\ IsDigit(tl[p[1]])
        /\ ReadsAsClock(k, SubSeq(tl, p[1], p[2])) }

ClockOccurs(t) == \E k \in 1..3 : ClockTexts(lower(t), k) # {}

\* One of the words occurs in the lowered text.
AnyOccurs(words, t) == \E w \in words : Contains(lower(t), Codes(w))

TimeWords == {"morning", "afternoon", "evening", "night", "kal", "aaj", "parso"}
PaymentWords == {"cod", "cash on delivery", "cash", "prepaid", "online", "upi", "card"}
FragileWords == {"fragile", "breakable", "handle carefully", "delicate"}

\* Ten digits, the first of them 6 to 9, start at position i of t and are
\* followed by the end of the text or by a character that is no word
\* character.  A digit is any decimal digit (the \d of the pattern), the
\* first one is one of the four characters 6, 7, 8, 9.
MobileNumberAt(t, i) ==
    /\ i >= 1 /\ i + 9 <= Len(t)
    /\ t[i] \in {54, 55, 56, 57}
    /\ \A j \in 1..9 : IsDigit(t[i + j])
    /\ i + 9 = Len(t) \/ ~IsWord(t[i + 10])

\* The number at i stands alone: no word character before it.
StandsAlone(t, i) == i = 1 \/ ~IsWord(t[i - 1])

\* The number at i follows the country code +91, directly or after one white
\* space character or hyphen.
FollowsCountryCode(t, i) ==
    \/ StartsAt(t, i - 3, Codes("+91"))
    \/ StartsAt(t, i - 4, Codes("+91")) /\ (IsSpace(t[i - 1]) \/ t[i - 1] = 45)

PhoneOccurs(t) ==
    \E i \in 1..Len(t) :
        MobileNumberAt(t, i) /\ (StandsAlone(t, i) \/ FollowsCountryCode(t, i))

\* The location candidates of a text: what the recogniser reported and the
\* places of the gazetteer written in the text, title-cased, as a set.
Candidates(t, ents) ==
    { ents[i] : i \in 1..Len(ents) } \cup
    { title(location_keywords[k]) :
        k \in { j \in 1..Len(location_keywords) : Contains(lower(t), location_keywords[j]) } }

\* extract has been called and has returned its dict.
ExtractReturned == extracted # NoExtract /\ "raises" \notin DOMAIN extracted

\* C11: for every input text extract returns a record with exactly the eight
\* keys pickup_location, drop_location, weight_kg, packages, pickup_time,
\* fragile, payment_mode and phone_number, and raises no error; fragile is a
\* boolean; each of the other seven fields is null exactly when its rule
\* matched nothing, whatever the other rules found, so each location field is
\* null exactly when no location candidate was found in the text.
C11_AsStated ==
    extracted # NoExtract =>
        /\ "raises" \notin DOMAIN extracted
        /\ DOMAIN extracted =
              { "pickup_location", "drop_location", "weight_kg", "packages",
                "pickup_time", "fragile", "payment_mode", "phone_number" }
        /\ extracted.fragile \in BOOLEAN
        /\ extracted.fragile <=> AnyOccurs(FragileWords, query_text)
        /\ extracted.weight_kg = None <=> ~WeightOccurs(query_text)
        /\ extracted.packages = None <=> ~PackagesOccurs(query_text)
        /\ extracted.pickup_time = None <=>
              ~(AnyOccurs(TimeWords, query_text) \/ ClockOccurs(query_text))
        /\ extracted.payment_mode = None <=> ~AnyOccurs(PaymentWords, query_text)
        /\ extracted.phone_number = None <=> ~PhoneOccurs(query_text)
        /\ extracted.pickup_location = None <=> Candidates(query_text, ner) = {}
        /\ extracted.drop_location = None <=> Candidates(query_text, ner) = {}

\* C12: when the deduplicated candidate list has two or more entries, the
\* pickup location is its first entry and the drop location its second,
\* whichever of " se ", " from " and " to " the text holds; the two values
\* returned are different strings.
C12_TwoCandidates ==
    LET locations == location_candidates(query_text, ner)
    IN extracted # NoExtract /\ Len(locations) >= 2 =>
          /\ extracted.pickup_location = Some(locations[1])
          /\ extracted.drop_location = Some(locations[2])
          /\ extracted.pickup_location # extracted.drop_location

\* A text holding " se ", " from " and " to " at once, the recogniser
\* reporting the last two of its three places: the pickup and the drop
\* location are the first two candidates, and not the places around "to".
C12_Witness ==
    /\ query_text = Codes("Delhi se ya from Noida to Pune")
    /\ ner = <<Codes("Noida"), Codes("Pune")>>
    /\ \A c \in {" se ", " from ", " to "} : Contains(lower(query_text), Codes(c))
    /\ location_candidates(query_text, ner) = <<Codes("Noida"), Codes("Pune"), Codes("Delhi")>>
    /\ ExtractReturned
    /\ extracted.pickup_location = Some(Codes("Noida"))
    /\ extracted.drop_location = Some(Codes("Pune"))

\* w occurs in the lowered text as a word of its own.
WordOccurs(t, w) ==
    LET tl == lower(t)
    IN \E i \in 1..Len(tl) :
          StartsAt(tl, i, w) /\ Boundary(tl, i) /\ Boundary(tl, i + Len(w))

PickupCue(t) == WordOccurs(t, Codes("pickup")) \/ WordOccurs(t, Codes("se"))
DeliveryCue(t) == WordOccurs(t, Codes("drop")) \/ WordOccurs(t, Codes("delivery"))

\* C13: with exactly one location candidate, it is the pickup location if the
\* text holds a pickup cue (the word "pickup" or the particle "se"), otherwise
\* the drop location if the text holds a delivery cue ("drop" or "delivery"),
\* otherwise both locations are null; at most one of the two is set, and with
\* no candidate both are null.
C13_OneCandidate ==
    LET locations == location_candidates(query_text, ner)
    IN ExtractReturned =>
          /\ Len(locations) = 1 =>
                /\ extracted.pickup_location = None \/ extracted.drop_location = None
                /\ IF PickupCue(query_text)
                   THEN /\ extracted.pickup_location = Some(locations[1])
                        /\ extracted.drop_location = None
                   ELSE IF DeliveryCue(query_text)
                   THEN /\ extracted.pickup_location = None
                        /\ extracted.drop_location = Some(locations[1])
                   ELSE /\ extracted.pickup_location = None
                        /\ extracted.drop_location = None
          /\ Len(locations) = 0 =>
                /\ extracted.pickup_location = None
                /\ extracted.drop_location = None

\* C14: the phone rule returns null whenever the text holds no ten-digit number
\* starting with 6 to 9 that stands alone or follows +91 (with an optional
\* white space character or hyphen), as for "1234567890"; it returns non-null
\* whenever the text holds one; and what it returns is a literal substring of
\* the text that ends with those ten digits.
C14_PhoneNumber ==
    ExtractReturned =>
        /\ extracted.phone_number # None <=> PhoneOccurs(query_text)
        /\ extracted.phone_number # None =>
              LET phone == extracted.phone_number[1]
              IN /\ Contains(query_text, phone)
                 /\ Len(phone) >= 10
                 /\ MobileNumberAt(phone, Len(phone) - 9)
        /\ query_text = Codes("1234567890") => extracted.phone_number = None

\* The number written right after the country code: neither alone nor valid
\* without the prefix, and returned with the prefix.
C14_Witness ==
    /\ query_text = Codes("+919876543210 par")
    /\ ~StandsAlone(query_text, 4) /\ FollowsCountryCode(query_text, 4)
    /\ ExtractReturned
    /\ extracted.phone_number = Some(Codes("+919876543210"))

\* The gazetteer places standing in the text as "<A> se <B>" or "<A> to <B>".
ConnectedPlaces ==
    LET tl == lower(query_text)
        written == { k \in 1..Len(location_keywords) : Contains(tl, location_keywords[k]) }
    IN { p \in written \X written :
           /\ p[1] # p[2]
           /\ \/ Contains(tl, location_keywords[p[1]] \o Codes(" se ") \o location_keywords[p[2]])
              \/ Contains(tl, location_keywords[p[1]] \o Codes(" to ") \o location_keywords[p[2]]) }

\* C16: for a text "<A> se <B>" or "<A> to <B>" with A and B two different
\* gazetteer places in that order, extract returns pickup_location = A and
\* drop_location = B, whether the recogniser reports none, one or both of the
\* two places (in text order).
C16_PlacesInTextOrder ==
    ExtractReturned =>
        \A p \in ConnectedPlaces :
            /\ extracted.pickup_location = Some(title(location_keywords[p[1]]))
            /\ extracted.drop_location = Some(title(location_keywords[p[2]]))

\* C20: the pickup-time rule gives the keyword table precedence over the clock
\* patterns: the result is the label of the first keyword, in the order of the
\* table (morning, afternoon, evening, night, kal, aaj, parso), that occurs in
\* the text, even when a clock pattern is present; only when no keyword occurs
\* is it the literal text matched by the first clock pattern, in the order of
\* the list, that matches (the leftmost stretch reading as a time of that
\* form, taken as far as it reads); and null when neither matches.
C20_PickupTime ==
    LET tl == lower(query_text)
        order == <<"morning", "afternoon", "evening", "night", "kal", "aaj", "parso">>
        label == <<"morning", "afternoon", "evening", "night", "tomorrow", "today",
                   "day_after_tomorrow">>
        Keywords == { k \in 1..7 : Contains(tl, Codes(order[k])) }
        Patterns == { k \in 1..3 : ClockTexts(tl, k) # {} }
        Min(S) == CHOOSE k \in S : \A j \in S : k <= j
        matched == CHOOSE p \in ClockTexts(tl, Min(Patterns)) :
                      \A q \in ClockTexts(tl, Min(Patterns)) :
                          p[1] < q[1] \/ (p[1] = q[1] /\ p[2] >= q[2])
    IN ExtractReturned =>
          /\ Keywords # {} =>
                extracted.pickup_time = Some(Codes(label[Min(Keywords)]))
          /\ Keywords = {} /\ Patterns # {} =>
                extracted.pickup_time = Some(SubSeq(tl, matched[1], matched[2]))
          /\ Keywords = {} /\ Patterns = {} => extracted.pickup_time = None

\* A keyword late in the table and a clock time in one text: the keyword wins.
C20_Witness ==
    /\ query_text = Codes("kal 6 baje")
    /\ ExtractReturned
    /\ ClockTexts(lower(query_text), 3) = {<<5, 10>>}
    /\ extracted.pickup_time = Some(Codes("tomorrow"))

\* C21: the payment rule follows the priority order of the table (cod, cash on
\* delivery, cash, prepaid, online, upi, card): the result is the canonical
\* value of the first keyword of the table that occurs in the text, so a text
\* with a COD term and a prepaid term yields COD; the result is always COD,
\* prepaid or null.
C21_PaymentMode ==
    LET tl == lower(query_text)
        order == <<"cod", "cash on delivery", "cash", "prepaid", "online", "upi", "card">>
        canonical(k) == IF k <= 3 THEN Codes("COD") ELSE Codes("prepaid")
        Occurring == { k \in 1..7 : Contains(tl, Codes(order[k])) }
        first == CHOOSE k \in Occurring : \A j \in Occurring : k <= j
    IN ExtractReturned =>
          /\ extracted.payment_mode \in {None, Some(Codes("COD")), Some(Codes("prepaid"))}
          /\ Occurring = {} => extracted.payment_mode = None
          /\ Occurring # {} => extracted.payment_mode = Some(canonical(first))
          /\ Occurring \cap 1..3 # {} /\ Occurring \cap 4..7 # {} =>
                extracted.payment_mode = Some(Codes("COD"))

\* A prepaid term standing before a COD term, both written with capitals: the
\* result is COD.
C21_Witness ==
    /\ query_text = Codes("Card ya COD")
    /\ ~Contains(query_text, Codes("cod")) /\ ~Contains(query_text, Codes("card"))
    /\ ExtractReturned
    /\ extracted.payment_mode = Some(Codes("COD"))

\* C22: the weight rule returns the number of the leftmost occurrence in the
\* text of a decimal number followed by one of the unit tokens kg, kgs,
\* kilogram, kilos, whichever of the four units that occurrence uses ("10kg"
\* gives 10.0, "10.5 kilograms" gives 10.5), and null when no number is
\* followed by a unit ("ten kg").
C22_LeftmostWeight ==
    LET tl == lower(query_text)
        stops == NonDigits(tl)
        Occurrences == { i \in 1..Len(tl) :
                           \E unit \in {Codes("kg"), Codes("kgs"), Codes("kilogram"),
                                        Codes("kilos")} :
                               WeightEnd(tl, stops, i, unit) # 0 }
        i == Search(Occurrences)
        a == DigitRunEnd(stops, i)
        b == IF StartsAt(tl, a, Codes(".")) THEN DigitRunEnd(stops, a + 1) ELSE a
    IN ExtractReturned =>
          /\ Occurrences # {} => extracted.weight_kg = Some(float(SubSeq(tl, i, b - 1)))
          /\ Occurrences = {} => extracted.weight_kg = None
          /\ query_text = Codes("10kg") =>
                extracted.weight_kg = Some([whole |-> "10", fraction |-> ""])
          /\ query_text = Codes("10.5 kilograms") =>
                extracted.weight_kg = Some([whole |-> "10", fraction |-> "5"])
          /\ query_text = Codes("ten kg") => extracted.weight_kg = None

(***************************************************************************)
(* Properties of preprocess_text (checked under SpecPreprocess)            *)
(***************************************************************************)

\* The upper-case characters (str.isupper), as ranges of code points.
Uppercase ==
    << <<65, 90>>, <<192, 214>>, <<216, 222>>, <<256, 256>>, <<258, 258>>, <<260, 260>>,
       <<262, 262>>, <<264, 264>>, <<266, 266>>, <<268, 268>>, <<270, 270>>, <<272, 272>>,
       <<274, 274>>, <<276, 276>>, <<278, 278>>, <<280, 280>>, <<282, 282>>, <<284, 284>>,
       <<286, 286>>, <<288, 288>>, <<290, 290>>, <<292, 292>>, <<294, 294>>, <<296, 296>>,
       <<298, 298>>, <<300, 300>>, <<302, 302>>, <<304, 304>>, <<306, 306>>, <<308, 308>>,
       <<310, 310>>, <<313, 313>>, <<315, 315>>, <<317, 317>>, <<319, 319>>, <<321, 321>>,
       <<323, 323>>, <<325, 325>>, <<327, 327>>, <<330, 330>>, <<332, 332>>, <<334, 334>>,
       <<336, 336>>, <<338, 338>>, <<340, 340>>, <<342, 342>>, <<344, 344>>, <<346, 346>>,
       <<348, 348>>, <<350, 350>>, <<352, 352>>, <<354, 354>>, <<356, 356>>, <<358, 358>>,
       <<360, 360>>, <<362, 362>>, <<364, 364>>, <<366, 366>>, <<368, 368>>, <<370, 370>>,
       <<372, 372>>, <<374, 374>>, <<376, 377>>, <<379, 379>>, <<381, 381>>, <<385, 386>>,
       <<388, 388>>, <<390, 391>>, <<393, 395>>, <<398, 401>>, <<403, 404>>, <<406, 408>>,
       <<412, 413>>, <<415, 416>>, <<418, 418>>, <<420, 420>>, <<422, 423>>, <<425, 425>>,
       <<428, 428>>, <<430, 431>>, <<433, 435>>, <<437, 437>>, <<439, 440>>, <<444, 444>>,
       <<452, 452>>, <<455, 455>>, <<458, 458>>, <<461, 461>>, <<463, 463>>, <<465, 465>>,
       <<467, 467>>, <<469, 469>>, <<471, 471>>, <<473, 473>>, <<475, 475>>, <<478, 478>>,
       <<480, 480>>, <<482, 482>>, <<484, 484>>, <<486, 486>>, <<488, 488>>, <<490, 490>>,
       <<492, 492>>, <<494, 494>>, <<497, 497>>, <<500, 500>>, <<502, 504>>, <<506, 506>>,
       <<508, 508>>, <<510, 510>>, <<512, 512>>, <<514, 514>>, <<516, 516>>, <<518, 518>>,
       <<520, 520>>, <<522, 522>>, <<524, 524>>, <<526, 526>>, <<528, 528>>, <<530, 530>>,
       <<532, 532>>, <<534, 534>>, <<536, 536>>, <<538, 538>>, <<540, 540>>, <<542, 542>>,
       <<544, 544>>, <<546, 546>>, <<548, 548>>, <<550, 550>>, <<552, 552>>, <<554, 554>>,
       <<556, 556>>, <<558, 558>>, <<560, 560>>, <<562, 562>>, <<570, 571>>, <<573, 574>>,
       <<577, 577>>, <<579, 582>>, <<584, 584>>, <<586, 586>>, <<588, 588>>, <<590, 590>>,
       <<880, 880>>, <<882, 882>>, <<886, 886>>, <<895, 895>>, <<902, 902>>, <<904, 906>>,
       <<908, 908>>, <<910, 911>>, <<913, 929>>, <<931, 939>>, <<975, 975>>, <<978, 980>>,
       <<984, 984>>, <<986, 986>>, <<988, 988>>, <<990, 990>>, <<992, 992>>, <<994, 994>>,
       <<996, 996>>, <<998, 998>>, <<1000, 1000>>, <<1002, 1002>>, <<1004, 1004>>, <<1006, 1006>>,
       <<1012, 1012>>, <<1015, 1015>>, <<1017, 1018>>, <<1021, 1071>>, <<1120, 1120>>, <<1122, 1122>>,
       <<1124, 1124>>, <<1126, 1126>>, <<1128, 1128>>, <<1130, 1130>>, <<1132, 1132>>, <<1134, 1134>>,
       <<1136, 1136>>, <<1138, 1138>>, <<1140, 1140>>, <<1142, 1142>>, <<1144, 1144>>, <<1146, 1146>>,
       <<1148, 1148>>, <<1150, 1150>>, <<1152, 1152>>, <<1162, 1162>>, <<1164, 1164>>, <<1166, 1166>>,
       <<1168, 1168>>, <<1170, 1170>>, <<1172, 1172>>, <<1174, 1174>>, <<1176, 1176>>, <<1178, 1178>>,
       <<1180, 1180>>, <<1182, 1182>>, <<1184, 1184>>, <<1186, 1186>>, <<1188, 1188>>, <<1190, 1190>>,
       <<1192, 1192>>, <<1194, 1194>>, <<1196, 1196>>, <<1198, 1198>>, <<1200, 1200>>, <<1202, 1202>>,
       <<1204, 1204>>, <<1206, 1206>>, <<1208, 1208>>, <<1210, 1210>>, <<1212, 1212>>, <<1214, 1214>>,
       <<1216, 1217>>, <<1219, 1219>>, <<1221, 1221>>, <<1223, 1223>>, <<1225, 1225>>, <<1227, 1227>>,
       <<1229, 1229>>, <<1232, 1232>>, <<1234, 1234>>, <<1236, 1236>>, <<1238, 1238>>, <<1240, 1240>>,
       <<1242, 1242>>, <<1244, 1244>>, <<1246, 1246>>, <<1248, 1248>>, <<1250, 1250>>, <<1252, 1252>>,
       <<1254, 1254>>, <<1256, 1256>>, <<1258, 1258>>, <<1260, 1260>>, <<1262, 1262>>, <<1264, 1264>>,
       <<1266, 1266>>, <<1268, 1268>>, <<1270, 1270>>, <<1272, 1272>>, <<1274, 1274>>, <<1276, 1276>>,
       <<1278, 1278>>, <<1280, 1280>>, <<1282, 1282>>, <<1284, 1284>>, <<1286, 1286>>, <<1288, 1288>>,
       <<1290, 1290>>, <<1292, 1292>>, <<1294, 1294>>, <<1296, 1296>>, <<1298, 1298>>, <<1300, 1300>>,
       <<1302, 1302>>, <<1304, 1304>>, <<1306, 1306>>, <<1308, 1308>>, <<1310, 1310>>, <<1312, 1312>>,
       <<1314, 1314>>, <<1316, 1316>>, <<1318, 1318>>, <<1320, 1320>>, <<1322, 1322>>, <<1324, 1324>>,
       <<1326, 1326>>, <<1329, 1366>>, <<4256, 4293>>, <<4295, 4295>>, <<4301, 4301>>, <<5024, 5109>>,
       <<7312, 7354>>, <<7357, 7359>>, <<7680, 7680>>, <<7682, 7682>>, <<7684, 7684>>, <<7686, 7686>>,
       <<7688, 7688>>, <<7690, 7690>>, <<7692, 7692>>, <<7694, 7694>>, <<7696, 7696>>, <<7698, 7698>>,
       <<7700, 7700>>, <<7702, 7702>>, <<7704, 7704>>, <<7706, 7706>>, <<7708, 7708>>, <<7710, 7710>>,
       <<7712, 7712>>, <<7714, 7714>>, <<7716, 7716>>, <<7718, 7718>>, <<7720, 7720>>, <<7722, 7722>>,
       <<7724, 7724>>, <<7726, 7726>>, <<7728, 7728>>, <<7730, 7730>>, <<7732, 7732>>, <<7734, 7734>>,
       <<7736, 7736>>, <<7738, 7738>>, <<7740, 7740>>, <<7742, 7742>>, <<7744, 7744>>, <<7746, 7746>>,
       <<7748, 7748>>, <<7750, 7750>>, <<7752, 7752>>, <<7754, 7754>>, <<7756, 7756>>, <<7758, 7758>>,
       <<7760, 7760>>, <<7762, 7762>>, <<7764, 7764>>, <<7766, 7766>>, <<7768, 7768>>, <<7770, 7770>>,
       <<7772, 7772>>, <<7774, 7774>>, <<7776, 7776>>, <<7778, 7778>>, <<7780, 7780>>, <<7782, 7782>>,
       <<7784, 7784>>, <<7786, 7786>>, <<7788, 7788>>, <<7790, 7790>>, <<7792, 7792>>, <<7794, 7794>>,
       <<7796, 7796>>, <<7798, 7798>>, <<7800, 7800>>, <<7802, 7802>>, <<7804, 7804>>, <<7806, 7806>>,
       <<7808, 7808>>, <<7810, 7810>>, <<7812, 7812>>, <<7814, 7814>>, <<7816, 7816>>, <<7818, 7818>>,
       <<7820, 7820>>, <<7822, 7822>>, <<7824, 7824>>, <<7826, 7826>>, <<7828, 7828>>, <<7838, 7838>>,
       <<7840, 7840>>, <<7842, 7842>>, <<7844, 7844>>, <<7846, 7846>>, <<7848, 7848>>, <<7850, 7850>>,
       <<7852, 7852>>, <<7854, 7854>>, <<7856, 7856>>, <<7858, 7858>>, <<7860, 7860>>, <<7862, 7862>>,
       <<7864, 7864>>, <<7866, 7866>>, <<7868, 7868>>, <<7870, 7870>>, <<7872, 7872>>, <<7874, 7874>>,
       <<7876, 7876>>, <<7878, 7878>>, <<7880, 7880>>, <<7882, 7882>>, <<7884, 7884>>, <<7886, 7886>>,
       <<7888, 7888>>, <<7890, 7890>>, <<7892, 7892>>, <<7894, 7894>>, <<7896, 7896>>, <<7898, 7898>>,
       <<7900, 7900>>, <<7902, 7902>>, <<7904, 7904>>, <<7906, 7906>>, <<7908, 7908>>, <<7910, 7910>>,
       <<7912, 7912>>, <<7914, 7914>>, <<7916, 7916>>, <<7918, 7918>>, <<7920, 7920>>, <<7922, 7922>>,
       <<7924, 7924>>, <<7926, 7926>>, <<7928, 7928>>, <<7930, 7930>>, <<7932, 7932>>, <<7934, 7934>>,
       <<7944, 7951>>, <<7960, 7965>>, <<7976, 7983>>, <<7992, 7999>>, <<8008, 8013>>, <<8025, 8025>>,
       <<8027, 8027>>, <<8029, 8029>>, <<8031, 8031>>, <<8040, 8047>>, <<8120, 8123>>, <<8136, 8139>>,
       <<8152, 8155>>, <<8168, 8172>>, <<8184, 8187>>, <<8450, 8450>>, <<8455, 8455>>, <<8459, 8461>>,
       <<8464, 8466>>, <<8469, 8469>>, <<8473, 8477>>, <<8484, 8484>>, <<8486, 8486>>, <<8488, 8488>>,
       <<8490, 8493>>, <<8496, 8499>>, <<8510, 8511>>, <<8517, 8517>>, <<8544, 8559>>, <<8579, 8579>>,
       <<9398, 9423>>, <<11264, 11311>>, <<11360, 11360>>, <<11362, 11364>>, <<11367, 11367>>, <<11369, 11369>>,
       <<11371, 11371>>, <<11373, 11376>>, <<11378, 11378>>, <<11381, 11381>>, <<11390, 11392>>, <<11394, 11394>>,
       <<11396, 11396>>, <<11398, 11398>>, <<11400, 11400>>, <<11402, 11402>>, <<11404, 11404>>, <<11406, 11406>>,
       <<11408, 11408>>, <<11410, 11410>>, <<11412, 11412>>, <<11414, 11414>>, <<11416, 11416>>, <<11418, 11418>>,
       <<11420, 11420>>, <<11422, 11422>>, <<11424, 11424>>, <<11426, 11426>>, <<11428, 11428>>, <<11430, 11430>>,
       <<11432, 11432>>, <<11434, 11434>>, <<11436, 11436>>, <<11438, 11438>>, <<11440, 11440>>, <<11442, 11442>>,
       <<11444, 11444>>, <<11446, 11446>>, <<11448, 11448>>, <<11450, 11450>>, <<11452, 11452>>, <<11454, 11454>>,
       <<11456, 11456>>, <<11458, 11458>>, <<11460, 11460>>, <<11462, 11462>>, <<11464, 11464>>, <<11466, 11466>>,
       <<11468, 11468>>, <<11470, 11470>>, <<11472, 11472>>, <<11474, 11474>>, <<11476, 11476>>, <<11478, 11478>>,
       <<11480, 11480>>, <<11482, 11482>>, <<11484, 11484>>, <<11486, 11486>>, <<11488, 11488>>, <<11490, 11490>>,
       <<11499, 11499>>, <<11501, 11501>>, <<11506, 11506>>, <<42560, 42560>>, <<42562, 42562>>, <<42564, 42564>>,
       <<42566, 42566>>, <<42568, 42568>>, <<42570, 42570>>, <<42572, 42572>>, <<42574, 42574>>, <<42576, 42576>>,
       <<42578, 42578>>, <<42580, 42580>>, <<42582, 42582>>, <<42584, 42584>>, <<42586, 42586>>, <<42588, 42588>>,
       <<42590, 42590>>, <<42592, 42592>>, <<42594, 42594>>, <<42596, 42596>>, <<42598, 42598>>, <<42600, 42600>>,
       <<42602, 42602>>, <<42604, 42604>>, <<42624, 42624>>, <<42626, 42626>>, <<42628, 42628>>, <<42630, 42630>>,
       <<42632, 42632>>, <<42634, 42634>>, <<42636, 42636>>, <<42638, 42638>>, <<42640, 42640>>, <<42642, 42642>>,
       <<42644, 42644>>, <<42646, 42646>>, <<42648, 42648>>, <<42650, 42650>>, <<42786, 42786>>, <<42788, 42788>>,
       <<42790, 42790>>, <<42792, 42792>>, <<42794, 42794>>, <<42796, 42796>>, <<42798, 42798>>, <<42802, 42802>>,
       <<42804, 42804>>, <<42806, 42806>>, <<42808, 42808>>, <<42810, 42810>>, <<42812, 42812>>, <<42814, 42814>>,
       <<42816, 42816>>, <<42818, 42818>>, <<42820, 42820>>, <<42822, 42822>>, <<42824, 42824>>, <<42826, 42826>>,
       <<42828, 42828>>, <<42830, 42830>>, <<42832, 42832>>, <<42834, 42834>>, <<42836, 42836>>, <<42838, 42838>>,
       <<42840, 42840>>, <<42842, 42842>>, <<42844, 42844>>, <<42846, 42846>>, <<42848, 42848>>, <<42850, 42850>>,
       <<42852, 42852>>, <<42854, 42854>>, <<42856, 42856>>, <<42858, 42858>>, <<42860, 42860>>, <<42862, 42862>>,
       <<42873, 42873>>, <<42875, 42875>>, <<42877, 42878>>, <<42880, 42880>>, <<42882, 42882>>, <<42884, 42884>>,
       <<42886, 42886>>, <<42891, 42891>>, <<42893, 42893>>, <<42896, 42896>>, <<42898, 42898>>, <<42902, 42902>>,
       <<42904, 42904>>, <<42906, 42906>>, <<42908, 42908>>, <<42910, 42910>>, <<42912, 42912>>, <<42914, 42914>>,
       <<42916, 42916>>, <<42918, 42918>>, <<42920, 42920>>, <<42922, 42926>>, <<42928, 42932>>, <<42934, 42934>>,
       <<42936, 42936>>, <<42938, 42938>>, <<42940, 42940>>, <<42942, 42942>>, <<42944, 42944>>, <<42946, 42946>>,
       <<42948, 42951>>, <<42953, 42953>>, <<42960, 42960>>, <<42966, 42966>>, <<42968, 42968>>, <<42997, 42997>>,
       <<65313, 65338>>, <<66560, 66599>>, <<66736, 66771>>, <<66928, 66938>>, <<66940, 66954>>, <<66956, 66962>>,
       <<66964, 66965>>, <<68736, 68786>>, <<71840, 71871>>, <<93760, 93791>>, <<119808, 119833>>, <<119860, 119885>>,
       <<119912, 119937>>, <<119964, 119964>>, <<119966, 119967>>, <<119970, 119970>>, <<119973, 119974>>, <<119977, 119980>>,
       <<119982, 119989>>, <<120016, 120041>>, <<120068, 120069>>, <<120071, 120074>>, <<120077, 120084>>, <<120086, 120092>>,
       <<120120, 120121>>, <<120123, 120126>>, <<120128, 120132>>, <<120134, 120134>>, <<120138, 120144>>, <<120172, 120197>>,
       <<120224, 120249>>, <<120276, 120301>>, <<120328, 120353>>, <<120380, 120405>>, <<120432, 120457>>, <<120488, 120512>>,
       <<120546, 120570>>, <<120604, 120628>>, <<120662, 120686>>, <<120720, 120744>>, <<120778, 120778>>, <<125184, 125217>>,
       <<127280, 127305>>, <<127312, 127337>>, <<127344, 127369>> >>

IsUpper(c) == RangeIndex(Uppercase, c, 1, Len(Uppercase)) # 0

\* What C15 says of the result n apart from its letters: preprocess_text maps
\* it to itself, it holds only word characters and blanks, and no blank at
\* either end or next to another blank.
C15_Normal(n) ==
    /\ preprocess_text(n) = n
    /\ \A i \in 1..Len(n) :
          /\ IsWord(n[i]) \/ n[i] = 32
          /\ n[i] = 32 => i > 1 /\ i < Len(n) /\ n[i + 1] # 32

\* C15 as stated: preprocess_text is idempotent, and its result holds no
\* upper-case letter, no character other than word characters and blanks, no
\* leading or trailing blank and no two blanks in a row.
C15_AsStated ==
    normalized # None =>
        /\ C15_Normal(normalized[1])
        /\ \A i \in 1..Len(normalized[1]) : ~IsUpper(normalized[1][i])

\* C15: preprocess_text is idempotent, and its result holds no character that
\* lower-casing changes (an upper-case letter of it has no lower-case form),
\* no character other than word characters and blanks, no leading or trailing
\* blank and no two blanks in a row.
C15_PreprocessIdempotent ==
    normalized # None =>
        /\ C15_Normal(normalized[1])
        /\ lower(normalized[1]) = normalized[1]
        /\ \A i \in 1..Len(normalized[1]) :
              IsUpper(normalized[1][i]) => lower(<<normalized[1][i]>>) = <<normalized[1][i]>>

\* A capital E with acute accent, a comma and a mathematical bold capital A:
\* the first is lowered, the comma becomes the one blank, the last stays.
C15_Witness ==
    /\ query_text = <<201, 44, 119808>>
    /\ normalized = Some(<<233, 32, 119808>>)
    /\ IsUpper(119808)

\* C17 (checked under SpecSequential): when load fails, the vectorizer, the
\* model and the is_trained flag of the instance are what they were before the
\* call; a trained instance whose load failed still predicts, an untrained one
\* stays untrained.
C17_FailedLoad ==
    wpc = "idle" /\ wcall.name = "load" /\ wresult = "error" =>
        /\ vectorizer = wcall.vectorizer
        /\ model = wcall.model
        /\ is_trained = wcall.is_trained

\* What a finished predict of reader r returned.
Returned(r) ==
    [ how |-> rresult[r], intent |-> rlocal[r].intent, confidence |-> rlocal[r].confidence ]

\* What predict returns when it runs alone on the instance as it is now.
SequentialResult == [ how |-> "ok", intent |-> model, confidence |-> model ]

C19_SameResults ==
    \A r \in Readers :
        rpc[r] = "done" =>
            /\ rlocal[r].text_vec = vectorizer
            /\ Returned(r) = SequentialResult
            /\ \A q \in Readers :
                  rpc[q] = "done" /\ rlocal[q].text = rlocal[r].text =>
                      Returned(q) = Returned(r)

\* C19 (checked under SpecReadOnly): in every interleaving of predict and save
\* calls on a trained classifier no step changes the vectorizer, the model or
\* the is_trained flag, and every predict returns what it returns when run
\* alone, the same for the same text.
C19_ReadOnly ==
    /\ [][UNCHANGED <<vectorizer, model, is_trained>>]_vars
    /\ []C19_SameResults

\* Two predicts of the same text and a save are in progress at once, and one
\* predict has returned.
C19_Witness ==
    /\ wpc = "save_113"
    /\ rpc[1] = "done" /\ rresult[1] = "ok"
    /\ rpc[2] = "predict_98"
    /\ rlocal[1].text = rlocal[2].text
    /\ rlocal[1].after_completed /\ is_trained


(***************************************************************************)
(* Properties of the service (checked under SpecServer)                    *)
(***************************************************************************)

ServiceStages == <<"classify", "extract", "decide">>
IsPrefix(s, t) == Len(s) <= Len(t) /\ s = SubSeq(t, 1, Len(s))

\* A request to /voice-agent/parse is being handled, or was the last one
\* answered.
ParseRoute == "/voice-agent/parse"
InParse == ppc \in {"parse_80", "parse_88", "predict", "parse_96", "parse_99", "parse_106"}
ParseAnswered == ppc = "serving" /\ response.route = ParseRoute

C18_Responses ==
    \* the stages of a parse request run in the order classify, extract, decide
    /\ InParse \/ ParseAnswered => IsPrefix(stages, ServiceStages)
    \* no stage runs on a text that is empty after trimming: it is answered 400
    /\ (InParse \/ ParseAnswered) /\ stages # <<>> =>
          /\ query_text # <<>>
          /\ ~IsSpace(query_text[1]) /\ ~IsSpace(query_text[Len(query_text)])
    /\ ParseAnswered => (response.status = 400 <=> query_text = <<>>)
    /\ ParseAnswered /\ response.status = 400 =>
          stages = <<>> /\ response.detail = "Query text cannot be empty"
    \* a directive is returned only by a parse request whose predict succeeded,
    \* and then it is the one decided for this request's text
    /\ response.status = 200 /\ response.route # ParseRoute =>
          "next_action" \notin DOMAIN response.body
    /\ ParseAnswered => response.status \in {200, 400, 500}
    /\ ParseAnswered => ("body" \in DOMAIN response <=> response.status = 200)
    /\ ParseAnswered /\ response.status = 200 =>
          /\ stages = ServiceStages
          /\ is_trained
          /\ rpc[1] = "done" /\ rresult[1] = "ok" /\ rlocal[1].text = query_text
          /\ DOMAIN response.body = {"query", "intent", "entities", "next_action"}
          /\ response.body.query = query_text
          /\ response.body.intent = [intent |-> intent, confidence |-> confidence]
          /\ LET found == extract(query_text, ner)
             IN /\ response.body.entities = found
                /\ response.body.next_action = decide_action(intent, found, confidence)
    \* an error after the text was accepted comes from a predict that raised,
    \* before any other stage, or from the extraction (the recogniser, or
    \* int() on a count of more than 4300 digits), and never from a predict
    \* that was passed over
    /\ ParseAnswered /\ response.status = 500 =>
          /\ rpc[1] = "done"
          /\ \/ /\ stages = <<"classify">> /\ rresult[1] # "ok"
                /\ IsPrefix("Intent classification failed. Make sure model is trained. Error: ",
                            response.detail)
             \/ /\ stages = <<"classify", "extract">> /\ rresult[1] = "ok"
                /\ IsPrefix("Internal error: ", response.detail)
    \* the load at start-up, whatever the model file holds, always has a next
    \* step, and is not under way when the start-up is given up: that happens
    \* only where the recogniser cannot be constructed (main.py:25), before
    \* load is called
    /\ ppc = "load_32" => ENABLED (ServiceLoad \/ ServiceUp)
    /\ ppc = "raised_25" => wpc = "idle" /\ wcall.name # "load" /\ response = NoResponse
    \* a service whose model was never loaded answers every parse request with
    \* an error
    /\ ~is_trained /\ ParseAnswered => response.status \in {400, 500}
    /\ ~is_trained /\ ParseAnswered /\ query_text # <<>> =>
          /\ response.status = 500 /\ rresult[1] = "not_trained"
          /\ stages = <<"classify">>
    \* a request starts with nothing left of the one before
    /\ ppc = "parse_80" =>
          /\ stages = <<>> /\ response = NoResponse
          /\ intent = "" /\ directive = NoCall /\ extracted = NoExtract

\* C18 (checked under SpecServer): the stages of a parse request run in the
\* order classify, extract, decide; a response carries a next_action directive
\* only if the classification of that same request succeeded; a service whose
\* model was never loaded still starts, and answers every parse request with
\* an error and no directive; a text that is empty after trimming is rejected
\* before any stage runs; and serving a request changes nothing the next
\* request reads.  (The load, once called, ends in the service serving,
\* whether it returned or raised.)
C18_Pipeline ==
    /\ []C18_Responses
    /\ [][ppc = "load_32" => ppc' \in {"load_32", "serving"}]_vars
    /\ [][ppc \notin {"off", "load_32"} =>
            UNCHANGED <<vectorizer, model, is_trained, file>>]_vars

\* The model file is missing, the service is up all the same, and a request
\* whose text had white space around it has been answered with an error after
\* the classify stage.
C18_Witness ==
    /\ file = Missing /\ ~is_trained
    /\ ppc = "serving"
    /\ query_text = Codes("Mera order track karo")
    /\ stages = <<"classify">>
    /\ response = [ route |-> ParseRoute, status |-> 500,
                    detail |-> "Intent classification failed. Make sure model is trained. "
                               \o "Error: Model not trained or loaded!" ]


\* ---- persistence properties (checked under SpecPersist) ----

\* save is past its check only on a trained instance that still holds the
\* attributes it had when the call started.
C23_SaveOnlyTrained ==
    wpc \in {"save_112", "save_113"} =>
        /\ wcall.name = "save"
        /\ wcall.is_trained /\ is_trained
        /\ vectorizer = wcall.vectorizer /\ model = wcall.model

\* One step of save or load, and every change of the file.
C23_Step ==
    \* save on an untrained instance raises and leaves the file alone
    /\ wpc = "save_107" /\ ~is_trained => wresult' = "error" /\ file' = file
    \* the blob save leaves holds the pair the instance held when save was called
    /\ wpc = "save_113" /\ wresult' = "ok" =>
          /\ file' = Blob(wcall.vectorizer, wcall.model)
          /\ wcall.vectorizer # Absent /\ wcall.model # Absent
    \* a save that raises leaves no blob of its own
    /\ wpc \in {"save_107", "save_112", "save_113"} /\ wresult' = "error" =>
          file' \in {file, Corrupt}
    \* the file changes only inside a save that passed the check, or from outside
    /\ file' # file => wpc \in {"save_112", "save_113"} \/ (wpc = "idle" /\ wpc' = "idle")
    \* load of a blob with both entries does not fail, whatever the instance holds
    /\ wpc \in {"load_125", "load_128", "load_129", "load_130", "load_132"}
         /\ file.kind = "dict" /\ file.vectorizer # Absent /\ file.model # Absent
         => wresult' # "error" /\ file' = file
    \* and returns with a trained instance holding the pair of the blob
    /\ wpc = "load_132" /\ wpc' = "idle" =>
          /\ wresult' = "ok"
          /\ is_trained'
          /\ file' = Blob(vectorizer', model')

\* C23: persist and restore round-trip as one unit: every blob written by save
\* restores, via load into any instance, to a trained instance holding the same
\* (vectorizer, model) pair the saving instance held at the time of save; save
\* fails and writes nothing on an untrained instance, so no persisted blob ever
\* comes from an untrained model.
C23_RoundTrip == []C23_SaveOnlyTrained /\ [][C23_Step]_vars

\* A blob only save can have written (the vectorizer of one training run with
\* the model of another), loaded into an instance that held a different pair.
C23_Witness ==
    /\ wpc = "idle" /\ wcall.name = "load" /\ wresult = "ok"
    /\ file.kind = "dict" /\ file.vectorizer # Absent /\ file.model # Absent
    /\ file.vectorizer # file.model
    /\ wcall.vectorizer # file.vectorizer /\ wcall.model # file.model
    /\ is_trained
    /\ vectorizer = file.vectorizer /\ model = file.model

=============================================================================
